---- MODULE Spec2Model ----
(***************************************************************************)
(* Agent orchestration engine of corint-cognition: the CostController,     *)
(* the Executor's plan execution with retry, and the Orchestrator's        *)
(* message pipeline, as state machines.                                    *)
(*                                                                         *)
(* The specifications of the module:                                       *)
(*   SpecCost        the CostController driven by its public methods       *)
(*   SpecPlan        one Executor.executePlan call over an arbitrary plan  *)
(*   SpecOrch        the Orchestrator: sessions, admission, entry points   *)
(*   SpecTwoCalls    a new session and its first two calls                 *)
(*   SpecTools       one Executor.executeWithTools call                    *)
(*   SpecCheckpoint  a context and its checkpoint, driven directly         *)
(*   SpecChat        the command loop of runChat                           *)
(*   SpecPlanner     one Planner.createPlan or revisePlan call             *)
(*   SpecFormat      the content of one tool-result message                *)
(*   SpecShared      two sessions of one Orchestrator, interleaved         *)
(*   SpecRevise      executePlan, then the revision after a failure        *)
(*   SpecPlanFair    SpecPlan with its steps taken as long as one can be   *)
(*   SpecConfirm     the tool calls of one reply and their confirmations   *)
(***************************************************************************)
EXTENDS Integers, Sequences, FiniteSets, TLC

VARIABLES
  limits,     \* CostController.limits
  metrics,    \* CostController.metrics : Map<sessionId, CostMetrics>
  now,        \* the wall clock read by Date.now(), in ms
  lastCall,   \* the last CostController method called, with its outcome
  ex,         \* the frame of the call a specification follows
  sessions,   \* ContextManager.sessions : Map<sessionId, SessionContext>
  calls       \* per session id, the processMessage[Stream] call in flight

vars == <<limits, metrics, now, lastCall, ex, sessions, calls>>

\* ------------------------------------------------------------------ bounds

\* The clock stops advancing at MaxClock.
MaxClock == 3

\* recordQuery is driven at most this many times per session lifetime.
MaxRecords == 2

\* Session ids in use.
Sessions == {"s1", "s2"}

\* (promptTokens, completionTokens) arguments given to recordQuery.
TokenPairs == {<<0, 0>>, <<1, 2>>}

\* ------------------------------------------------------- CostController

DefaultMaxTokens == 100000
DefaultMaxQueries == 50
DefaultTimeout == 3600000

\* Partial<CostLimits> values handed to the constructor; a missing field is
\* a field the caller left undefined.
LimitConfigs ==
  { <<>>,
    [maxTokens |-> 3, maxQueries |-> 2, timeout |-> 2],
    [maxTokens |-> 2, maxQueries |-> 3, timeout |-> 0],
    [maxQueries |-> 1] }

\* constructor(limits): limits.x ?? default
CostControllerNew(cfg) ==
  [ maxTokens  |-> IF "maxTokens" \in DOMAIN cfg THEN cfg.maxTokens ELSE DefaultMaxTokens,
    maxQueries |-> IF "maxQueries" \in DOMAIN cfg THEN cfg.maxQueries ELSE DefaultMaxQueries,
    timeout    |-> IF "timeout" \in DOMAIN cfg THEN cfg.timeout ELSE DefaultTimeout ]

\* Map.set(k, v)
MapSet(m, k, v) == [x \in (DOMAIN m) \cup {k} |-> IF x = k THEN v ELSE m[x]]

\* Map.delete(k)
MapDelete(m, k) == [x \in (DOMAIN m) \ {k} |-> m[x]]

EmptyMap == [x \in {} |-> 0]

initSession(m, sessionId, t) ==
  MapSet(m, sessionId,
         [ totalTokens |-> 0, promptTokens |-> 0, completionTokens |-> 0,
           queryCount |-> 0, startTime |-> t, lastQueryTime |-> t ])

\* recordQuery throws when the session has no metrics.
recordQueryThrows(m, sessionId) == sessionId \notin DOMAIN m

recordQueryAssign(m, sessionId, promptTokens, completionTokens, t) ==
  IF sessionId \notin DOMAIN m THEN m
  ELSE [m EXCEPT ![sessionId] =
          [ @ EXCEPT !.promptTokens = promptTokens,
                     !.completionTokens = completionTokens,
                     !.totalTokens = promptTokens + completionTokens,
                     !.queryCount = @ + 1,
                     !.lastQueryTime = t ]]

recordQueryUpsert(m, sessionId, promptTokens, completionTokens, t) ==
  LET base == IF sessionId \in DOMAIN m THEN m ELSE initSession(m, sessionId, t)
  IN [base EXCEPT ![sessionId] =
          [ @ EXCEPT !.promptTokens = @ + promptTokens,
                     !.completionTokens = @ + completionTokens,
                     !.totalTokens = @ + promptTokens + completionTokens,
                     !.queryCount = @ + 1,
                     !.lastQueryTime = t ]]

\* The metrics map after recordQuery returns or throws.
recordQuery(m, sessionId, promptTokens, completionTokens, t) ==
  IF sessionId \notin DOMAIN m THEN m
  ELSE [m EXCEPT ![sessionId] =
          [ @ EXCEPT !.promptTokens = @ + promptTokens,
                     !.completionTokens = @ + completionTokens,
                     !.totalTokens = @ + promptTokens + completionTokens,
                     !.queryCount = @ + 1,
                     !.lastQueryTime = t ]]

NoReason == [kind |-> "none", used |-> 0, limit |-> 0]
Allowed == [allowed |-> TRUE, reason |-> NoReason]
Denied(kind, used, limit) ==
  [allowed |-> FALSE, reason |-> [kind |-> kind, used |-> used, limit |-> limit]]

\* The reason templates of checkLimits, without their numbers.
TokenReason == "Token limit exceeded"
QueryReason == "Query limit exceeded"
TimeoutReason == "Timeout exceeded"

checkLimitsQueriesFirst(m, lim, sessionId, t) ==
  IF sessionId \notin DOMAIN m THEN Allowed
  ELSE IF m[sessionId].queryCount >= lim.maxQueries
    THEN Denied(QueryReason, m[sessionId].queryCount, lim.maxQueries)
  ELSE IF m[sessionId].totalTokens >= lim.maxTokens
    THEN Denied(TokenReason, m[sessionId].totalTokens, lim.maxTokens)
  ELSE IF lim.timeout > 0 /\ t - m[sessionId].startTime >= lim.timeout
    THEN Denied(TimeoutReason, t - m[sessionId].startTime, lim.timeout)
  ELSE Allowed

checkLimits(m, lim, sessionId, t) ==
  IF sessionId \notin DOMAIN m THEN Allowed
  ELSE IF m[sessionId].totalTokens >= lim.maxTokens
    THEN Denied(TokenReason, m[sessionId].totalTokens, lim.maxTokens)
  ELSE IF m[sessionId].queryCount >= lim.maxQueries
    THEN Denied(QueryReason, m[sessionId].queryCount, lim.maxQueries)
  ELSE IF lim.timeout > 0 /\ t - m[sessionId].startTime >= lim.timeout
    THEN Denied(TimeoutReason, t - m[sessionId].startTime, lim.timeout)
  ELSE Allowed

clearMetrics(m, sessionId) == MapDelete(m, sessionId)

NoCall == [op |-> "none", sid |-> "", threw |-> FALSE, result |-> Allowed]
Call(op, sid, threw, result) ==
  [op |-> op, sid |-> sid, threw |-> threw, result |-> result]

\* Placeholders of the variables a specification does not use.
ExIdle == [pc |-> "idle"]
NoCalls == [s \in Sessions |-> [pc |-> "idle"]]

otherVarsOfCost == <<ex, sessions, calls>>

InitCost ==
  /\ \E cfg \in LimitConfigs : limits = CostControllerNew(cfg)
  /\ metrics = EmptyMap
  /\ now = 0
  /\ lastCall = NoCall
  /\ ex = ExIdle
  /\ sessions = EmptyMap
  /\ calls = NoCalls

DoInitSession(s) ==
  /\ metrics' = initSession(metrics, s, now)
  /\ lastCall' = Call("initSession", s, FALSE, Allowed)
  /\ UNCHANGED <<limits, now, otherVarsOfCost>>

DoRecordQuery(s, p, c) ==
  /\ s \in DOMAIN metrics => metrics[s].queryCount < MaxRecords
  /\ metrics' = recordQuery(metrics, s, p, c, now)
  /\ lastCall' = Call("recordQuery", s, recordQueryThrows(metrics, s), Allowed)
  /\ UNCHANGED <<limits, now, otherVarsOfCost>>

DoCheckLimitsTouch(s) ==
  /\ metrics' = IF s \in DOMAIN metrics
                  THEN [metrics EXCEPT ![s].lastQueryTime = now]
                  ELSE metrics
  /\ lastCall' = Call("checkLimits", s, FALSE, checkLimits(metrics, limits, s, now))
  /\ UNCHANGED <<limits, now, otherVarsOfCost>>

DoCheckLimits(s) ==
  /\ metrics' = metrics
  /\ lastCall' = Call("checkLimits", s, FALSE, checkLimits(metrics, limits, s, now))
  /\ UNCHANGED <<limits, now, otherVarsOfCost>>

DoClearMetrics(s) ==
  /\ metrics' = clearMetrics(metrics, s)
  /\ lastCall' = Call("clearMetrics", s, FALSE, Allowed)
  /\ UNCHANGED <<limits, now, otherVarsOfCost>>

\* Time passes between calls.
Tick ==
  /\ now < MaxClock
  /\ now' = now + 1
  /\ lastCall' = Call("tick", "", FALSE, Allowed)
  /\ UNCHANGED <<limits, metrics, otherVarsOfCost>>

NextCost ==
  \/ \E s \in Sessions : DoInitSession(s)
  \/ \E s \in Sessions : \E pc \in TokenPairs : DoRecordQuery(s, pc[1], pc[2])
  \/ \E s \in Sessions : DoCheckLimits(s)
  \/ \E s \in Sessions : DoClearMetrics(s)
  \/ Tick

SpecCost == InitCost /\ [][NextCost]_vars

\* ------------------------------------------------ CostController: claims

\* C2: for an initialised session checkLimits denies exactly when
\* totalTokens >= maxTokens, or queryCount >= maxQueries, or (timeout > 0 and
\* the time elapsed since startTime >= timeout); the reason it reports is that
\* of the first failing check in the order tokens, queries, timeout, with the
\* usage and the limit of that check.
C2_CheckLimitsDecision ==
  (lastCall.op = "checkLimits" /\ lastCall.sid \in DOMAIN metrics) =>
    LET m   == metrics[lastCall.sid]
        tok == m.totalTokens >= limits.maxTokens
        qry == m.queryCount >= limits.maxQueries
        tmo == limits.timeout > 0 /\ now - m.startTime >= limits.timeout
        r   == lastCall.result
    IN /\ r.allowed <=> ~(tok \/ qry \/ tmo)
       /\ r.allowed => r.reason = NoReason
       /\ tok => r.reason = [kind |-> TokenReason, used |-> m.totalTokens,
                             limit |-> limits.maxTokens]
       /\ (~tok /\ qry) => r.reason = [kind |-> QueryReason, used |-> m.queryCount,
                                       limit |-> limits.maxQueries]
       /\ (~tok /\ ~qry /\ tmo) =>
            r.reason = [kind |-> TimeoutReason, used |-> now - m.startTime,
                        limit |-> limits.timeout]

\* A check that finds all three limits reached at once and reports the tokens.
C2_Witness ==
  /\ lastCall.op = "checkLimits"
  /\ lastCall.sid \in DOMAIN metrics
  /\ metrics[lastCall.sid].totalTokens >= limits.maxTokens
  /\ metrics[lastCall.sid].queryCount >= limits.maxQueries
  /\ limits.timeout > 0
  /\ now - metrics[lastCall.sid].startTime >= limits.timeout
  /\ lastCall.result.reason.kind = TokenReason

\* C4: while a session keeps its metrics, recordQuery and checkLimits never
\* decrease promptTokens, completionTokens, totalTokens or queryCount, and a
\* recordQuery that returns increases queryCount by exactly 1.
C4_MetricsMonotone ==
  [][\A s \in Sessions :
       (/\ s \in DOMAIN metrics
        /\ s \in DOMAIN metrics'
        /\ lastCall'.op \in {"recordQuery", "checkLimits"}) =>
         /\ metrics'[s].promptTokens >= metrics[s].promptTokens
         /\ metrics'[s].completionTokens >= metrics[s].completionTokens
         /\ metrics'[s].totalTokens >= metrics[s].totalTokens
         /\ metrics'[s].queryCount >= metrics[s].queryCount
         /\ (lastCall'.op = "recordQuery" /\ lastCall'.sid = s /\ ~lastCall'.threw)
              => metrics'[s].queryCount = metrics[s].queryCount + 1]_vars

\* A second recordQuery has returned on a session that already held tokens.
C4_Witness ==
  /\ lastCall.op = "recordQuery"
  /\ ~lastCall.threw
  /\ lastCall.sid \in DOMAIN metrics
  /\ metrics[lastCall.sid].queryCount = 2
  /\ metrics[lastCall.sid].totalTokens > 3

\* C5: recordQuery for a session id without metrics throws and leaves the
\* controller unchanged: no entry is created and no other session changes.
C5_RecordQueryUninitialised ==
  [][(lastCall'.op = "recordQuery" /\ lastCall'.sid \notin DOMAIN metrics) =>
       (lastCall'.threw /\ metrics' = metrics)]_vars

\* recordQuery has thrown for a session without metrics while the other
\* session holds recorded queries.
C5_Witness ==
  /\ lastCall.op = "recordQuery"
  /\ lastCall.threw
  /\ lastCall.sid \notin DOMAIN metrics
  /\ \E o \in DOMAIN metrics : metrics[o].queryCount > 0

\* C6: checkLimits has no side effects: the CostMetrics of every session are
\* the same before and after the call, whatever the decision.
C6_CheckLimitsPure ==
  [][lastCall'.op = "checkLimits" => metrics' = metrics]_vars

\* A check that denied on the timeout alone.
C6_Witness ==
  /\ lastCall.op = "checkLimits"
  /\ ~lastCall.result.allowed
  /\ lastCall.result.reason.kind = TimeoutReason

\* ------------------------------------------------- Executor: plan execution

\* Plans handed to executePlan hold at most MaxTasks tasks.
MaxTasks == 3

\* Executor.maxRetries
maxRetries == 3

RECURSIVE Pow(_, _)
\* Math.pow(base, e) for a natural exponent
Pow(base, e) == IF e = 0 THEN 1 ELSE base * Pow(base, e - 1)

\* Dependency lists a task of an n-task plan may declare: none, one id (its
\* own, another task's, or 0, which names no task) or two ids.
DepSets(n) == {d \in SUBSET (0..n) : Cardinality(d) <= 2}

\* A task as Planner.createPlan builds it: status pending, no result, no
\* error, retryCount undefined (-1).
NewTask(id, deps) ==
  [ id |-> id, status |-> "pending", dependencies |-> deps,
    result |-> "undefined", error |-> "undefined", retryCount |-> -1 ]

\* The task list of an n-task plan whose task k has id k and declares d[k].
PlanTasks(n, d) == [k \in 1..n |-> NewTask(k, d[k])]

\* allTasks.find(t => t.id === depId)?.status === 'completed'
depCompleted(depId, allTasks) ==
  /\ \E k \in 1..Len(allTasks) : allTasks[k].id = depId
  /\ LET first == CHOOSE k \in 1..Len(allTasks) :
                    /\ allTasks[k].id = depId
                    /\ \A j \in 1..(k - 1) : allTasks[j].id # depId
     IN allTasks[first].status = "completed"

canExecuteTaskSome(task, allTasks) ==
  \/ task.dependencies = {}
  \/ \E depId \in task.dependencies : depCompleted(depId, allTasks)

canExecuteTask(task, allTasks) ==
  \/ task.dependencies = {}
  \/ \A depId \in task.dependencies : depCompleted(depId, allTasks)

retryDelayNext(attempt) == Pow(2, attempt + 1) * 1000

\* The delay slept after failed attempt number `attempt`, in ms.
retryDelay(attempt) == Pow(2, attempt) * 1000

delayAfterAlways(attempt) == TRUE

\* executeWithRetry sleeps after a failed attempt unless it was the last.
delayAfter(attempt) == attempt < maxRetries - 1

\* The frame of executePlan(plan, context) at its first loop test: results
\* empty, the first pass about to visit task 0.  `pc` is the place of the
\* call: "scan" (in the for loop, before visiting task i), "attempt" (awaiting
\* the completion call of executeSingleAttempt), "delay" (awaiting the backoff
\* timer), "done" (returned).  delays, attempts, passes, completions and
\* executed record what the call has done: the delays slept and the
\* completion calls made in the current executeTask, the passes started, the
\* completion calls made and the ids of the tasks handed to executeTask, in
\* order, in the whole executePlan.
executePlanEnter(tasks) ==
  [ pc |-> "scan", tasks |-> tasks, currentTaskIndex |-> 0,
    i |-> 0, madeProgress |-> FALSE, results |-> <<>>,
    attempt |-> 0, delays |-> <<>>, attempts |-> 0,
    passes |-> 1, completions |-> 0, executed |-> <<>> ]

ExTask(e) == e.tasks[e.i + 1]

scanStepSinglePass(e) ==
  IF e.i >= Len(e.tasks)
    THEN [e EXCEPT !.pc = "done"]
  ELSE IF ExTask(e).status \in {"completed", "failed"}
    THEN [e EXCEPT !.i = @ + 1]
  ELSE IF ~canExecuteTask(ExTask(e), e.tasks)
    THEN [e EXCEPT !.tasks[e.i + 1].status = "blocked", !.i = @ + 1]
  ELSE [e EXCEPT !.currentTaskIndex = e.i,
                 !.tasks[e.i + 1].status = "running",
                 !.tasks[e.i + 1].retryCount = 0,
                 !.attempt = 0, !.delays = <<>>, !.attempts = 1,
                 !.completions = @ + 1,
                 !.executed = Append(@, ExTask(e).id),
                 !.pc = "attempt"]

\* A scan that passes over failed tasks only, not over completed ones.
scanStepRevisits(e) ==
  IF e.i >= Len(e.tasks)
    THEN IF e.madeProgress
           THEN [e EXCEPT !.madeProgress = FALSE, !.i = 0, !.passes = @ + 1]
           ELSE [e EXCEPT !.pc = "done"]
  ELSE IF ExTask(e).status = "failed"
    THEN [e EXCEPT !.i = @ + 1]
  ELSE IF ~canExecuteTask(ExTask(e), e.tasks)
    THEN [e EXCEPT !.tasks[e.i + 1].status = "blocked", !.i = @ + 1]
  ELSE [e EXCEPT !.currentTaskIndex = e.i,
                 !.tasks[e.i + 1].status = "running",
                 !.tasks[e.i + 1].retryCount = 0,
                 !.attempt = 0, !.delays = <<>>, !.attempts = 1,
                 !.completions = @ + 1,
                 !.executed = Append(@, ExTask(e).id),
                 !.pc = "attempt"]

\* One step of the scan: the loop test at the end of a pass, or the visit of
\* task i up to `continue` or up to the first await of executeTask.
scanStep(e) ==
  IF e.i >= Len(e.tasks)
    THEN IF e.madeProgress
           THEN [e EXCEPT !.madeProgress = FALSE, !.i = 0, !.passes = @ + 1]
           ELSE [e EXCEPT !.pc = "done"]
  ELSE IF ExTask(e).status \in {"completed", "failed"}
    THEN [e EXCEPT !.i = @ + 1]
  ELSE IF ~canExecuteTask(ExTask(e), e.tasks)
    THEN [e EXCEPT !.tasks[e.i + 1].status = "blocked", !.i = @ + 1]
  ELSE [e EXCEPT !.currentTaskIndex = e.i,
                 !.tasks[e.i + 1].status = "running",
                 !.tasks[e.i + 1].retryCount = 0,
                 !.attempt = 0, !.delays = <<>>, !.attempts = 1,
                 !.completions = @ + 1,
                 !.executed = Append(@, ExTask(e).id),
                 !.pc = "attempt"]

\* ExecutionResult values: what executeSingleAttempt returns, and what
\* executeTask returns from its catch block.
SuccessResult == [success |-> TRUE, output |-> "output"]
FailureResult == [success |-> FALSE, error |-> "message"]

\* The completion call of the current attempt returns: executeTask marks the
\* task completed and executePlan goes on with the next task.
attemptSucceeds(e) ==
  [e EXCEPT !.tasks[e.i + 1].status = "completed",
            !.tasks[e.i + 1].result = "output",
            !.results = Append(@, SuccessResult),
            !.madeProgress = TRUE,
            !.i = @ + 1,
            !.pc = "scan"]

attemptFailsContinue(e) ==
  IF delayAfter(e.attempt)
    THEN [e EXCEPT !.delays = Append(@, retryDelay(e.attempt)), !.pc = "delay"]
  ELSE [e EXCEPT !.tasks[e.i + 1].status = "failed",
                 !.tasks[e.i + 1].error = "message",
                 !.results = Append(@, FailureResult),
                 !.madeProgress = TRUE,
                 !.i = @ + 1,
                 !.pc = "scan"]

attemptFailsUncaught(e) ==
  IF delayAfter(e.attempt)
    THEN [e EXCEPT !.delays = Append(@, retryDelay(e.attempt)), !.pc = "delay"]
  ELSE [e EXCEPT !.pc = "done"]

\* The completion call of the current attempt throws: executeWithRetry
\* sleeps and retries, or, after the last attempt, rethrows; executeTask then
\* marks the task failed and executePlan returns its results.
attemptFails(e) ==
  IF delayAfter(e.attempt)
    THEN [e EXCEPT !.delays = Append(@, retryDelay(e.attempt)), !.pc = "delay"]
  ELSE IF e.attempt + 1 < maxRetries
    THEN [e EXCEPT !.attempt = @ + 1,
                   !.tasks[e.i + 1].retryCount = e.attempt + 1,
                   !.attempts = @ + 1, !.completions = @ + 1]
  ELSE [e EXCEPT !.tasks[e.i + 1].status = "failed",
                 !.tasks[e.i + 1].error = "message",
                 !.results = Append(@, FailureResult),
                 !.madeProgress = TRUE,
                 !.pc = "done"]

\* The backoff timer fires: the next attempt starts.
delayElapsed(e) ==
  IF e.attempt + 1 < maxRetries
    THEN [e EXCEPT !.attempt = @ + 1,
                   !.tasks[e.i + 1].retryCount = e.attempt + 1,
                   !.attempts = @ + 1, !.completions = @ + 1,
                   !.pc = "attempt"]
  ELSE [e EXCEPT !.tasks[e.i + 1].status = "failed",
                 !.tasks[e.i + 1].error = "message",
                 !.results = Append(@, FailureResult),
                 !.madeProgress = TRUE,
                 !.pc = "done"]

otherVarsOfPlan == <<limits, metrics, now, lastCall, sessions, calls>>

InitPlan ==
  /\ \E n \in 0..MaxTasks : \E d \in [1..n -> DepSets(n)] :
       ex = executePlanEnter(PlanTasks(n, d))
  /\ limits = CostControllerNew(<<>>)
  /\ metrics = EmptyMap
  /\ now = 0
  /\ lastCall = NoCall
  /\ sessions = EmptyMap
  /\ calls = NoCalls

Scanning == ex.pc = "scan" /\ ex.i < Len(ex.tasks)

SkipTerminal ==
  /\ Scanning
  /\ ExTask(ex).status \in {"completed", "failed"}
  /\ ex' = scanStep(ex)
  /\ UNCHANGED otherVarsOfPlan

MarkBlocked ==
  /\ Scanning
  /\ ExTask(ex).status \notin {"completed", "failed"}
  /\ ~canExecuteTask(ExTask(ex), ex.tasks)
  /\ ex' = scanStep(ex)
  /\ UNCHANGED otherVarsOfPlan

StartTask ==
  /\ Scanning
  /\ ExTask(ex).status \notin {"completed", "failed"}
  /\ canExecuteTask(ExTask(ex), ex.tasks)
  /\ ex' = scanStep(ex)
  /\ UNCHANGED otherVarsOfPlan

NextPass ==
  /\ ex.pc = "scan" /\ ex.i >= Len(ex.tasks)
  /\ ex.madeProgress
  /\ ex' = scanStep(ex)
  /\ UNCHANGED otherVarsOfPlan

ReturnResults ==
  /\ ex.pc = "scan" /\ ex.i >= Len(ex.tasks)
  /\ ~ex.madeProgress
  /\ ex' = scanStep(ex)
  /\ UNCHANGED otherVarsOfPlan

AttemptSucceeds ==
  /\ ex.pc = "attempt"
  /\ ex' = attemptSucceeds(ex)
  /\ UNCHANGED otherVarsOfPlan

AttemptFails ==
  /\ ex.pc = "attempt"
  /\ ex' = attemptFails(ex)
  /\ UNCHANGED otherVarsOfPlan

DelayElapses ==
  /\ ex.pc = "delay"
  /\ ex' = delayElapsed(ex)
  /\ UNCHANGED otherVarsOfPlan

NextPlan ==
  \/ SkipTerminal
  \/ MarkBlocked
  \/ StartTask
  \/ NextPass
  \/ ReturnResults
  \/ AttemptSucceeds
  \/ AttemptFails
  \/ DelayElapses

SpecPlan == InitPlan /\ [][NextPlan]_vars

\* ------------------------------------------------------- Executor: claims

DepsCompleted(task, tasks) ==
  \A d \in task.dependencies :
    \E j \in 1..Len(tasks) : tasks[j].id = d /\ tasks[j].status = "completed"

\* C1: while executePlan runs, a completed task has every declared dependency
\* completed; a task becomes running only in a state where every declared
\* dependency is completed; and the visit of a task that is neither completed
\* nor failed and has an unmet dependency sets it to blocked and runs nothing.
C1_DependencyOrder ==
  /\ [](ex.pc # "idle" =>
          \A k \in 1..Len(ex.tasks) :
            ex.tasks[k].status = "completed" => DepsCompleted(ex.tasks[k], ex.tasks))
  /\ [][ex.pc # "idle" =>
          /\ \A k \in 1..Len(ex.tasks) :
               (ex.tasks[k].status # "running" /\ ex'.tasks[k].status = "running")
                 => DepsCompleted(ex.tasks[k], ex.tasks)
          /\ (/\ ex.pc = "scan"
              /\ ex.i < Len(ex.tasks)
              /\ ExTask(ex).status \notin {"completed", "failed"}
              /\ ~DepsCompleted(ExTask(ex), ex.tasks))
               => /\ ex'.tasks[ex.i + 1].status = "blocked"
                  /\ ex'.pc = "scan"
                  /\ ex'.completions = ex.completions]_vars

\* The first task of a plan has completed after the two later tasks it
\* depends on, which takes a second pass over the plan.
C1_Witness ==
  /\ ex.pc # "idle"
  /\ Len(ex.tasks) = 3
  /\ ex.tasks[1].dependencies = {2, 3}
  /\ ex.tasks[1].status = "completed"

\* executeTask is between its first statement and its return.
InExecuteTask == ex.pc \in {"attempt", "delay"}

\* C11: executeTask sets its task to running and always returns a result: the
\* task is running exactly while executeTask is in progress; it returns with
\* the task completed, task.result stored and a successful result exactly
\* when an attempt succeeded, and with the task failed, task.error stored and
\* the result {success: false, error} exactly when all three attempts failed.
C11_ExecuteTaskOutcome ==
  /\ [](ex.pc # "idle" =>
          \A k \in 1..Len(ex.tasks) :
            ex.tasks[k].status = "running" <=> (InExecuteTask /\ k = ex.i + 1))
  /\ [][(ex.pc # "idle" /\ InExecuteTask /\ ex'.pc \notin {"attempt", "delay"}) =>
          LET task == ex'.tasks[ex.i + 1]
          IN /\ Len(ex'.results) = Len(ex.results) + 1
             /\ task.status \in {"completed", "failed"}
             /\ task.status = "completed" <=> AttemptSucceeds
             /\ task.status = "completed" =>
                   /\ task.result = "output" /\ task.error = "undefined"
                   /\ ex'.results[Len(ex'.results)] = SuccessResult
             /\ task.status = "failed" =>
                   /\ task.error = "message" /\ task.result = "undefined"
                   /\ ex'.results[Len(ex'.results)] = FailureResult
                   /\ ex.attempts = maxRetries]_vars

\* executeTask has returned twice in one executePlan: a success for the first
\* task, on its second attempt, and then a failure for the second task.
C11_Witness ==
  /\ ex.pc = "done"
  /\ Len(ex.tasks) >= 2
  /\ ex.tasks[1].status = "completed" /\ ex.tasks[1].retryCount = 1
  /\ ex.tasks[2].status = "failed"
  /\ ex.results = <<SuccessResult, FailureResult>>

\* C12: when task A has failed, executePlan has returned with A's result as
\* the last one recorded, and every task B that depends on A is blocked and
\* was never run (its retryCount was never set), wherever B stands in the list.
C12_DependentBlocked ==
  ex.pc # "idle" =>
    \A a \in 1..Len(ex.tasks) : \A b \in 1..Len(ex.tasks) :
      ( /\ a # b
        /\ ex.tasks[a].status = "failed"
        /\ ex.tasks[a].id \in ex.tasks[b].dependencies ) =>
          /\ ex.pc = "done"
          /\ ex.currentTaskIndex = a - 1
          /\ ex.results[Len(ex.results)] = FailureResult
          /\ ex.tasks[b].retryCount = -1
          /\ ex.tasks[b].status = "blocked"

\* The ids of the tasks of a plan.
TaskIds(tasks) == {tasks[k].id : k \in 1..Len(tasks)}

RECURSIVE DependsOn(_, _, _)
\* The ids reached from the ids in `from` along at most n further dependencies.
DependsOn(tasks, from, n) ==
  IF n = 0 THEN from
  ELSE DependsOn(tasks,
                 from \cup UNION {tasks[k].dependencies : k \in {j \in 1..Len(tasks) : tasks[j].id \in from}},
                 n - 1)

\* No task depends on itself, directly or through other tasks.
Acyclic(tasks) ==
  \A k \in 1..Len(tasks) :
    tasks[k].id \notin DependsOn(tasks, tasks[k].dependencies, Len(tasks))

\* Every declared dependency is the id of a task of the plan.
DependenciesExist(tasks) ==
  \A k \in 1..Len(tasks) : tasks[k].dependencies \subseteq TaskIds(tasks)

NoneFailed(tasks) == \A k \in 1..Len(tasks) : tasks[k].status # "failed"

AllTerminal(tasks) ==
  \A k \in 1..Len(tasks) : tasks[k].status \in {"completed", "failed"}

TaskOfId(tasks, id) == tasks[CHOOSE k \in 1..Len(tasks) : tasks[k].id = id]

\* C14: the results are those of the tasks handed to executeTask, in that
\* order, one per call that has returned; a failed result is the last of the
\* list and executePlan has returned with it; and after the return nothing
\* of the call changes: no further task is set to running or executed.
C14_FailureStopsPlan ==
  /\ [](ex.pc # "idle" =>
          /\ Len(ex.results) = Len(ex.executed) - (IF InExecuteTask THEN 1 ELSE 0)
          /\ \A j \in 1..Len(ex.results) :
               /\ ex.results[j].success
                    <=> TaskOfId(ex.tasks, ex.executed[j]).status = "completed"
               /\ ~ex.results[j].success =>
                    /\ j = Len(ex.results)
                    /\ ex.pc = "done"
                    /\ ex.results[j] = FailureResult
                    /\ TaskOfId(ex.tasks, ex.executed[j]).status = "failed")
  /\ [][ex.pc = "done" => ex' = ex]_vars

\* executePlan returned on the failure of its second task while a third
\* task, which depends on nothing, was still pending.
C14_Witness ==
  /\ ex.pc = "done"
  /\ Len(ex.tasks) = 3
  /\ ex.executed = <<1, 2>>
  /\ ex.results = <<SuccessResult, FailureResult>>
  /\ ex.tasks[3].dependencies = {} /\ ex.tasks[3].status = "pending"

\* C10: one executeTask makes at most 3 attempts, one completion call each;
\* retryCount never exceeds 3; the j-th delay slept is 2^(j-1) seconds; a delay
\* is slept only between two attempts, so none follows a successful attempt
\* or the final attempt.
C10_RetryBackoff ==
  ex.pc # "idle" =>
    /\ ex.attempts <= 3
    /\ \A k \in 1..Len(ex.tasks) : ex.tasks[k].retryCount <= 3
    /\ \A j \in 1..Len(ex.delays) : ex.delays[j] = Pow(2, j - 1) * 1000
    /\ ex.pc = "delay" => (Len(ex.delays) = ex.attempts /\ ex.attempts < 3)
    /\ ex.pc # "delay" => Len(ex.delays) = IF ex.attempts = 0 THEN 0 ELSE ex.attempts - 1

\* executeTask has failed after three attempts and slept 1 s and 2 s.
C10_Witness ==
  /\ ex.pc = "done"
  /\ Len(ex.results) > 0
  /\ ~ex.results[Len(ex.results)].success
  /\ ex.attempts = 3
  /\ ex.delays = <<1000, 2000>>

\* ------------------------------------------------------------ Orchestrator

\* A session id takes at most MaxCalls processMessage[Stream] calls between
\* two createSession or deleteSession calls.
MaxCalls == 1

\* The session ids the Orchestrator is driven on.  Its driver (the chat loop)
\* awaits each call before it makes the next one.
OrchSessions == {"s1"}

\* Executor.maxToolIterations
maxToolIterations == 8

UserMessages == {"q1"}

\* AgentConfig limits handed to the Orchestrator's constructor.
OrchLimitConfigs ==
  { <<>>,
    [maxQueries |-> 1],
    [maxQueries |-> 1, timeout |-> 2],
    [maxTokens |-> 3, maxQueries |-> 3, timeout |-> 0] }

\* LLMResponse.usage: undefined, or the three counters.
UndefinedUsage == [undefined |-> TRUE]
isDefined(u) == "undefined" \notin DOMAIN u
ProviderUsages ==
  { UndefinedUsage,
    [prompt_tokens |-> 1, completion_tokens |-> 2, total_tokens |-> 3] }

\* x.f || 0 for an optional numeric field
FieldOr0(u, f) == IF f \in DOMAIN u THEN u[f] ELSE 0

mergeUsageLast(first, second) ==
  IF isDefined(second) THEN second ELSE first

mergeUsage(first, second) ==
  IF ~isDefined(first) /\ ~isDefined(second) THEN UndefinedUsage
  ELSE [ prompt_tokens |-> FieldOr0(first, "prompt_tokens") + FieldOr0(second, "prompt_tokens"),
         completion_tokens |-> FieldOr0(first, "completion_tokens")
                                 + FieldOr0(second, "completion_tokens"),
         total_tokens |-> FieldOr0(first, "total_tokens") + FieldOr0(second, "total_tokens") ]

\* Orchestrator.recordTokenUsage: whether it throws, and the metrics after it.
recordTokenUsageThrows(m, sessionId, usage) ==
  isDefined(usage) /\ recordQueryThrows(m, sessionId)

recordTokenUsage(m, sessionId, usage, t) ==
  IF isDefined(usage)
    THEN recordQuery(m, sessionId, FieldOr0(usage, "prompt_tokens"),
                     FieldOr0(usage, "completion_tokens"), t)
    ELSE m

\* ContextManager.createSession
NoPlan == [goal |-> "", tasks |-> <<>>, currentTaskIndex |-> -1]
NewContext(sessionId) ==
  [ sessionId |-> sessionId, conversationHistory |-> <<>>,
    workingMemory |-> EmptyMap, currentPlan |-> NoPlan ]

\* An addMessage that keeps a window of the last entry and the new one.
addMessageWindow(ss, sessionId, role, content, t) ==
  [ss EXCEPT ![sessionId].conversationHistory =
     (IF @ = <<>> THEN <<>> ELSE <<@[Len(@)]>>) \o <<[role |-> role, content |-> content]>>]

\* An addMessage over a history array that every session shares.
addMessageShared(ss, sessionId, role, content, t) ==
  [o \in DOMAIN ss |->
     [ss[o] EXCEPT !.conversationHistory = Append(@, [role |-> role, content |-> content])]]

\* ContextManager.addMessage on an existing session; the entry's timestamp
\* (Date.now() at t) is read by nothing and left out of the entry.
addMessage(ss, sessionId, role, content, t) ==
  [ss EXCEPT ![sessionId].conversationHistory =
     Append(@, [role |-> role, content |-> content])]

\* The replies of the classification call: response.content
ClassifyReplies == {"simple_query", "complex_task", "null"}

\* content?.toLowerCase().trim() ... includes('complex')
classifyIntentOf(content) ==
  IF content = "complex_task" THEN "complex_task" ELSE "simple_query"

\* AgentResponse values
NoResponse == [kind |-> "none", reason |-> NoReason, confidence |-> "none",
               requiresUserInput |-> FALSE]
\* content: `Request blocked: ${costCheck.reason}`
BlockedResponse(reason) ==
  [kind |-> "blocked", reason |-> reason, confidence |-> "high",
   requiresUserInput |-> TRUE]
\* content: `Error: ${error.message}`
ErrorResponse ==
  [kind |-> "error", reason |-> NoReason, confidence |-> "low",
   requiresUserInput |-> TRUE]
AnswerResponse(confidence) ==
  [kind |-> "answer", reason |-> NoReason, confidence |-> confidence,
   requiresUserInput |-> FALSE]

\* calls[s]: the call in flight on session id s (pc # "idle"), or, when idle,
\* what the last call returned, the completion calls and the rounds of tool
\* calls it made and the events it yielded.  served counts the calls finished on the id since its last
\* createSession or deleteSession, and first tells how the first of them
\* ended: a processMessage that answered on the direct path ("simple_query")
\* or on the plan path ("complex_task"), a processMessage that caught an
\* error ("error"), or anything else ("other").  trace lists the steps the
\* call has taken, in order, and tokens adds up the total_tokens the
\* provider reported for the classification call and, once executeWithTools
\* has returned, those of its result.
IdleCall ==
  [ pc |-> "idle", kind |-> "none", msg |-> "", intent |-> "none",
    completions |-> 0, toolRounds |-> 0, iteration |-> 0,
    mergedUsage |-> UndefinedUsage, ex |-> ExIdle, confidence |-> "none",
    response |-> NoResponse, threw |-> FALSE, events |-> <<>>,
    served |-> 0, first |-> "none", trace |-> <<>>, tokens |-> 0 ]

\* The call takes the steps named.
Trace(c, steps) == [c EXCEPT !.trace = @ \o steps]

\* The call learns of the total_tokens of the usage given.
Reported(c, usage) == [c EXCEPT !.tokens = @ + FieldOr0(usage, "total_tokens")]

NewCall(kind, msg, last) ==
  [IdleCall EXCEPT !.kind = kind, !.msg = msg, !.served = last.served, !.first = last.first]

\* Completion calls made so far by a call, those of executePlan included.
CompletionsOf(c) ==
  c.completions + (IF c.ex.pc = "idle" THEN 0 ELSE c.ex.completions)

\* The call returns `response`, or throws to its caller.
EndCall(c, response, threw) ==
  [IdleCall EXCEPT
     !.kind = c.kind, !.intent = c.intent, !.completions = CompletionsOf(c),
     !.toolRounds = c.toolRounds,
     !.events = c.events, !.response = response, !.threw = threw,
     !.trace = c.trace, !.tokens = c.tokens,
     !.served = c.served + 1,
     !.first = IF c.served > 0 THEN c.first
               ELSE IF c.kind = "message" /\ response.kind = "answer" THEN c.intent
               ELSE IF c.kind = "message" /\ response.kind = "error" THEN "error"
               ELSE "other"]

\* FailCall of an entry point that catches nothing.
FailCallUncaught(c) == EndCall(c, NoResponse, TRUE)

\* An exception reaches the entry point: processMessage catches it and
\* answers with low confidence; processMessageStream lets it propagate.
FailCall(c) ==
  IF c.kind = "message" THEN EndCall(c, ErrorResponse, FALSE)
                        ELSE EndCall(c, NoResponse, TRUE)

Yield(c, type) == IF c.kind = "stream" THEN [c EXCEPT !.events = Append(@, type)] ELSE c

otherVarsOfOrch == <<lastCall, ex>>

InitOrch ==
  /\ \E cfg \in OrchLimitConfigs : limits = CostControllerNew(cfg)
  /\ metrics = EmptyMap
  /\ sessions = EmptyMap
  /\ calls = [s \in Sessions |-> IdleCall]
  /\ now = 0
  /\ lastCall = NoCall
  /\ ex = ExIdle

\* Orchestrator.createSession
CreateSession(s) ==
  /\ calls[s].pc = "idle"
  /\ sessions' = MapSet(sessions, s, NewContext(s))
  /\ metrics' = initSession(metrics, s, now)
  /\ calls' = [calls EXCEPT ![s] = IdleCall]
  /\ UNCHANGED <<limits, now, otherVarsOfOrch>>

\* Orchestrator.deleteSession
DeleteSession(s) ==
  /\ calls[s].pc = "idle"
  /\ sessions' = MapDelete(sessions, s)
  /\ metrics' = clearMetrics(metrics, s)
  /\ calls' = [calls EXCEPT ![s] = IdleCall]
  /\ UNCHANGED <<limits, now, otherVarsOfOrch>>

\* Time passes between two calls of the driver.  The clock is left alone
\* when no timeout within its range is configured: nothing would read it.
OrchTick ==
  /\ now < MaxClock
  /\ limits.timeout > 0 /\ limits.timeout <= MaxClock
  /\ \A s \in Sessions : calls[s].pc = "idle"
  /\ now' = now + 1
  /\ UNCHANGED <<limits, metrics, sessions, calls, otherVarsOfOrch>>

\* The driver makes a call when none is in flight.
CanStart(s) == \A o \in Sessions : calls[o].pc = "idle"

StartMessageAppendFirst(s, msg) ==
  /\ CanStart(s)
  /\ LET c == NewCall("message", msg, calls[s])
         costCheck == checkLimits(metrics, limits, s, now)
     IN IF s \notin DOMAIN sessions
          THEN /\ calls' = [calls EXCEPT ![s] = EndCall(c, NoResponse, TRUE)]
               /\ UNCHANGED sessions
          ELSE /\ sessions' = addMessage(sessions, s, "user", msg, now)
               /\ calls' = [calls EXCEPT ![s] =
                    IF ~costCheck.allowed
                      THEN EndCall(Trace(c, <<"append_user", "admission">>),
                                   BlockedResponse(costCheck.reason), FALSE)
                      ELSE [Trace(c, <<"append_user", "admission", "classify">>)
                              EXCEPT !.pc = "classify", !.completions = 1]]
  /\ UNCHANGED <<limits, metrics, now, otherVarsOfOrch>>

\* processMessage up to its first await: the session lookup, the admission
\* check, the user message appended, the classification call issued.
processMessageEnter(s, msg) ==
  /\ LET c == NewCall("message", msg, calls[s])
         costCheck == checkLimits(metrics, limits, s, now)
     IN IF s \notin DOMAIN sessions
          THEN /\ calls' = [calls EXCEPT ![s] = EndCall(c, NoResponse, TRUE)]
               /\ UNCHANGED sessions
        ELSE IF ~costCheck.allowed
          THEN /\ calls' = [calls EXCEPT ![s] =
                              EndCall(Trace(c, <<"admission">>),
                                      BlockedResponse(costCheck.reason), FALSE)]
               /\ UNCHANGED sessions
        ELSE /\ sessions' = addMessage(sessions, s, "user", msg, now)
             /\ calls' = [calls EXCEPT ![s] =
                            [Trace(c, <<"admission", "append_user", "classify">>)
                               EXCEPT !.pc = "classify", !.completions = 1]]
  /\ UNCHANGED <<limits, metrics, now, otherVarsOfOrch>>

\* The driver calls processMessage.
StartMessage(s, msg) == CanStart(s) /\ processMessageEnter(s, msg)

\* processMessageStream up to its first await: the session lookup, two status
\* events around the user message appended, the classification call issued.
\* The consumer (runMessage) pulls the next event as soon as it has reported
\* one, so the yields are taken in the same step.
processMessageStreamEnter(s, msg) ==
  /\ LET c == NewCall("stream", msg, calls[s])
     IN IF s \notin DOMAIN sessions
          THEN /\ calls' = [calls EXCEPT ![s] = EndCall(c, NoResponse, TRUE)]
               /\ UNCHANGED sessions
          ELSE /\ sessions' = addMessage(sessions, s, "user", msg, now)
               /\ calls' = [calls EXCEPT ![s] =
                    [Trace(Yield(Yield(c, "status"), "status"),
                           <<"append_user", "classify">>)
                       EXCEPT !.pc = "classify", !.completions = 1]]
  /\ UNCHANGED <<limits, metrics, now, otherVarsOfOrch>>

\* The driver starts consuming processMessageStream.
StartStream(s, msg) == CanStart(s) /\ processMessageStreamEnter(s, msg)

\* A completion call of the pipeline (not one made by executeWithRetry, which
\* catches it) throws: a provider or transport failure.
CompletionThrows(s) ==
  /\ calls[s].pc \in {"classify", "tools_llm", "tools_final", "plan_create",
                      "detect", "revise", "evaluate", "synthesize"}
  /\ calls' = [calls EXCEPT ![s] = FailCall(@)]
  /\ UNCHANGED <<limits, metrics, sessions, now, otherVarsOfOrch>>

\* classifyIntent resumes: the usage is recorded, the intent is read off the
\* reply, and the first call of the chosen path is issued.
ClassifyReturns(s, content, usage) ==
  /\ calls[s].pc = "classify"
  /\ LET c == Reported(calls[s], usage)
         intent == classifyIntentOf(content)
     IN IF recordTokenUsageThrows(metrics, s, usage)
          THEN /\ calls' = [calls EXCEPT ![s] = FailCall(c)]
               /\ UNCHANGED metrics
          ELSE /\ metrics' = recordTokenUsage(metrics, s, usage, now)
               /\ calls' = [calls EXCEPT ![s] =
                    [Trace(Yield(c, "status"),
                           IF intent = "simple_query" THEN <<"tools">>
                                                      ELSE <<"plan_create">>) EXCEPT
                       !.intent = intent,
                       !.pc = IF intent = "simple_query" THEN "tools_llm" ELSE "plan_create",
                       !.completions = @ + 1]]
  /\ UNCHANGED <<limits, sessions, now, otherVarsOfOrch>>

\* result.tokensUsed || 0
tokensUsedOr0(merged) == IF isDefined(merged) THEN FieldOr0(merged, "total_tokens") ELSE 0

\* handleSimpleQuery after executeWithTools returned: recordTokenUsage is
\* handed { total_tokens }, the answer is appended, the response returned.
FinishSimpleQuery(s, c0, merged) ==
  LET c == Reported([c0 EXCEPT !.mergedUsage = merged], merged)
      usage == [total_tokens |-> tokensUsedOr0(merged)]
  IN IF recordTokenUsageThrows(metrics, s, usage)
       THEN /\ calls' = [calls EXCEPT ![s] = FailCall(c)]
            /\ UNCHANGED <<metrics, sessions>>
       ELSE /\ metrics' = recordTokenUsage(metrics, s, usage, now)
            /\ sessions' = addMessage(sessions, s, "assistant", "answer", now)
            /\ calls' = [calls EXCEPT ![s] =
                           EndCall(Trace(Yield(c, "response"),
                                         <<"usage_record", "append_assistant">>),
                                   AnswerResponse("high"), FALSE)]

\* A completion call of executeWithTools' loop returns, requesting n tool calls.
ToolsLlmReturns(s, n, usage) ==
  /\ calls[s].pc = "tools_llm"
  /\ LET c == calls[s]
         merged == IF c.completions = 2 /\ c.toolRounds = 0
                     THEN usage ELSE mergeUsage(c.mergedUsage, usage)
     IN IF n > 0 /\ c.iteration < maxToolIterations
          THEN /\ calls' = [calls EXCEPT ![s] =
                              [c EXCEPT !.mergedUsage = merged, !.pc = "tools_exec"]]
               /\ UNCHANGED <<metrics, sessions>>
        ELSE IF n > 0
          THEN /\ calls' = [calls EXCEPT ![s] =
                              [c EXCEPT !.mergedUsage = merged, !.pc = "tools_final",
                                        !.completions = @ + 1]]
               /\ UNCHANGED <<metrics, sessions>>
        ELSE FinishSimpleQuery(s, c, merged)
  /\ UNCHANGED <<limits, now, otherVarsOfOrch>>

\* executeToolCalls resolves (each call's failure is captured in its entry):
\* the transcript is extended and the model is called again.
ToolCallsReturn(s) ==
  /\ calls[s].pc = "tools_exec"
  /\ calls' = [calls EXCEPT ![s] =
                 [@ EXCEPT !.toolRounds = @ + 1, !.iteration = @ + 1,
                           !.completions = @ + 1, !.pc = "tools_llm"]]
  /\ UNCHANGED <<limits, metrics, sessions, now, otherVarsOfOrch>>

\* A tool returned undefined: formatToolContent throws while the tool
\* messages are built, and executeWithTools with it.
ToolContentThrows(s) ==
  /\ calls[s].pc = "tools_exec"
  /\ calls' = [calls EXCEPT ![s] = FailCall([@ EXCEPT !.toolRounds = @ + 1])]
  /\ UNCHANGED <<limits, metrics, sessions, now, otherVarsOfOrch>>

\* The final call, made with tool use disabled, returns.
ToolsFinalReturns(s, usage) ==
  /\ calls[s].pc = "tools_final"
  /\ FinishSimpleQuery(s, calls[s], mergeUsage(calls[s].mergedUsage, usage))
  /\ UNCHANGED <<limits, now, otherVarsOfOrch>>

\* What parsePlanningResponse makes of the planner's replies: a parsed task
\* list, free text that does not parse, or a parsed object without `tasks`.
OrchPlanReplies ==
  { [kind |-> "tasks", tasks |-> PlanTasks(2, <<{}, {1}>>)],
    [kind |-> "unparsable", tasks |-> <<>>],
    [kind |-> "no_tasks", tasks |-> <<>>] }

\* result.tasks.map(...) throws on a reply without a task list.
planTasksThrows(reply) == reply.kind = "no_tasks"

\* The pending tasks built from a reply; the fallback is the single task_1.
planTasksOf(reply) ==
  IF reply.kind = "tasks" THEN reply.tasks ELSE <<NewTask(1, {})>>

\* Planner.revisePlan in overwrite mode
revisePlanOverwrite(plan, reply) ==
  [plan EXCEPT !.tasks = SubSeq(plan.tasks, 1, plan.currentTaskIndex) \o planTasksOf(reply)]

RECURSIVE runScan(_)
\* executePlan runs on to its next await, or to its return.
runScan(e) == IF e.pc = "scan" THEN runScan(scanStep(e)) ELSE e

\* executePlan mutates the plan object stored as context.currentPlan.
planOf(c) == [goal |-> c.msg, tasks |-> c.ex.tasks,
              currentTaskIndex |-> c.ex.currentTaskIndex]

HasFailure(results) == \E k \in 1..Len(results) : ~results[k].success

\* AfterScan of a detectErrors that calls the model whatever the results.
AfterScanAlwaysAnalyse(c) ==
  IF c.ex.pc # "done" THEN [c EXCEPT !.pc = "plan_exec"]
  ELSE [Trace(c, <<"detect", "detect_llm">>) EXCEPT !.pc = "detect", !.completions = @ + 1]

\* handleComplexTask after executePlan reached an await or returned; on
\* return detectErrors calls the model only if some result failed, else
\* evaluateResult is called at once.
AfterScan(c) ==
  IF c.ex.pc # "done" THEN [c EXCEPT !.pc = "plan_exec"]
  ELSE IF HasFailure(c.ex.results)
    THEN [Trace(c, <<"detect", "detect_llm">>) EXCEPT !.pc = "detect", !.completions = @ + 1]
  ELSE [Trace(c, <<"detect", "evaluate">>) EXCEPT !.pc = "evaluate", !.completions = @ + 1]

PlanStep(s, c0, e) ==
  LET c == [c0 EXCEPT !.ex = runScan(e)]
  IN /\ calls' = [calls EXCEPT ![s] = AfterScan(c)]
     /\ sessions' = [sessions EXCEPT ![s].currentPlan = planOf(c)]

\* createPlan resumes with the planner's reply; executePlan starts.
PlanCreateReturns(s, reply) ==
  /\ calls[s].pc = "plan_create"
  /\ IF planTasksThrows(reply)
       THEN /\ calls' = [calls EXCEPT ![s] = FailCall(@)]
            /\ UNCHANGED sessions
       ELSE PlanStep(s, Trace(calls[s], <<"plan_execute">>),
                     executePlanEnter(planTasksOf(reply)))
  /\ UNCHANGED <<limits, metrics, now, otherVarsOfOrch>>

PlanAttemptSucceeds(s) ==
  /\ calls[s].pc = "plan_exec" /\ calls[s].ex.pc = "attempt"
  /\ PlanStep(s, calls[s], attemptSucceeds(calls[s].ex))
  /\ UNCHANGED <<limits, metrics, now, otherVarsOfOrch>>

PlanAttemptFails(s) ==
  /\ calls[s].pc = "plan_exec" /\ calls[s].ex.pc = "attempt"
  /\ PlanStep(s, calls[s], attemptFails(calls[s].ex))
  /\ UNCHANGED <<limits, metrics, now, otherVarsOfOrch>>

PlanDelayElapses(s) ==
  /\ calls[s].pc = "plan_exec" /\ calls[s].ex.pc = "delay"
  /\ PlanStep(s, calls[s], delayElapsed(calls[s].ex))
  /\ UNCHANGED <<limits, metrics, now, otherVarsOfOrch>>

\* detectErrors resumes; revisePlan is called.
DetectReturns(s) ==
  /\ calls[s].pc = "detect"
  /\ calls' = [calls EXCEPT ![s] =
                 [Trace(@, <<"revise">>) EXCEPT !.pc = "revise", !.completions = @ + 1]]
  /\ UNCHANGED <<limits, metrics, sessions, now, otherVarsOfOrch>>

\* A ReviseReturns that hands the revised plan to executePlan.
ReviseReturnsExecutes(s, reply) ==
  /\ calls[s].pc = "revise"
  /\ IF planTasksThrows(reply)
       THEN /\ calls' = [calls EXCEPT ![s] = FailCall(@)]
            /\ UNCHANGED sessions
       ELSE PlanStep(s, Trace(calls[s], <<"plan_execute">>),
                     executePlanEnter(revisePlanOverwrite(planOf(calls[s]), reply).tasks))
  /\ UNCHANGED <<limits, metrics, now, otherVarsOfOrch>>

\* revisePlan resumes: the revised plan becomes context.currentPlan and
\* evaluateResult is called.
ReviseReturns(s, reply) ==
  /\ calls[s].pc = "revise"
  /\ IF planTasksThrows(reply)
       THEN /\ calls' = [calls EXCEPT ![s] = FailCall(@)]
            /\ UNCHANGED sessions
       ELSE /\ sessions' = [sessions EXCEPT ![s].currentPlan =
                              revisePlanOverwrite(planOf(calls[s]), reply)]
            /\ calls' = [calls EXCEPT ![s] =
                           [Trace(@, <<"evaluate">>)
                              EXCEPT !.pc = "evaluate", !.completions = @ + 1]]
  /\ UNCHANGED <<limits, metrics, now, otherVarsOfOrch>>

\* evaluateResult resumes with its judgement; synthesizeResponse is called.
EvaluateReturns(s, confidence) ==
  /\ calls[s].pc = "evaluate"
  /\ calls' = [calls EXCEPT ![s] =
                 [Trace(@, <<"synthesize">>)
                    EXCEPT !.pc = "synthesize", !.confidence = confidence,
                           !.completions = @ + 1]]
  /\ UNCHANGED <<limits, metrics, sessions, now, otherVarsOfOrch>>

\* synthesizeResponse resumes: the answer is appended and returned.
SynthesizeReturns(s) ==
  /\ calls[s].pc = "synthesize"
  /\ sessions' = addMessage(sessions, s, "assistant", "answer", now)
  /\ calls' = [calls EXCEPT ![s] =
                 EndCall(Trace(Yield(@, "response"), <<"append_assistant">>),
                         AnswerResponse(calls[s].confidence), FALSE)]
  /\ UNCHANGED <<limits, metrics, now, otherVarsOfOrch>>

\* The steps of a call in flight.
CallStep ==
  \/ \E s \in OrchSessions : CompletionThrows(s)
  \/ \E s \in OrchSessions : \E content \in ClassifyReplies : \E usage \in ProviderUsages :
       ClassifyReturns(s, content, usage)
  \/ \E s \in OrchSessions : \E n \in {0, 1} : \E usage \in ProviderUsages :
       ToolsLlmReturns(s, n, usage)
  \/ \E s \in OrchSessions : ToolCallsReturn(s)
  \/ \E s \in OrchSessions : ToolContentThrows(s)
  \/ \E s \in OrchSessions : \E usage \in ProviderUsages : ToolsFinalReturns(s, usage)
  \/ \E s \in OrchSessions : \E reply \in OrchPlanReplies : PlanCreateReturns(s, reply)
  \/ \E s \in OrchSessions : PlanAttemptSucceeds(s)
  \/ \E s \in OrchSessions : PlanAttemptFails(s)
  \/ \E s \in OrchSessions : PlanDelayElapses(s)
  \/ \E s \in OrchSessions : DetectReturns(s)
  \/ \E s \in OrchSessions : \E reply \in OrchPlanReplies : ReviseReturns(s, reply)
  \/ \E s \in OrchSessions : \E confidence \in {"high", "low"} : EvaluateReturns(s, confidence)
  \/ \E s \in OrchSessions : SynthesizeReturns(s)

NextOrch ==
  \/ \E s \in OrchSessions : CreateSession(s)
  \/ \E s \in OrchSessions : DeleteSession(s)
  \/ OrchTick
  \/ \E s \in OrchSessions : \E msg \in UserMessages :
       calls[s].served < MaxCalls /\ StartMessage(s, msg)
  \/ \E s \in OrchSessions : \E msg \in UserMessages :
       calls[s].served < MaxCalls /\ StartStream(s, msg)
  \/ CallStep

SpecOrch == InitOrch /\ [][NextOrch]_vars

\* ------------------------------- Orchestrator: a first and a second message

\* The session is created when the Orchestrator is, and is then sent a first
\* and a second message, each through either entry point.
InitTwoCalls ==
  /\ \E cfg \in OrchLimitConfigs : limits = CostControllerNew(cfg)
  /\ metrics = initSession(EmptyMap, "s1", 0)
  /\ sessions = MapSet(EmptyMap, "s1", NewContext("s1"))
  /\ calls = [s \in Sessions |-> IdleCall]
  /\ now = 0
  /\ lastCall = NoCall
  /\ ex = ExIdle

NextTwoCalls ==
  \/ OrchTick
  \/ \E msg \in UserMessages : calls["s1"].served \in {0, 1} /\ StartMessage("s1", msg)
  \/ \E msg \in UserMessages : calls["s1"].served \in {0, 1} /\ StartStream("s1", msg)
  \/ CallStep

SpecTwoCalls == InitTwoCalls /\ [][NextTwoCalls]_vars

\* ------------------------------------------------------ Orchestrator claims

\* The session's metrics have reached one of the three limits.
LimitReached(s) ==
  /\ s \in DOMAIN metrics
  /\ \/ metrics[s].totalTokens >= limits.maxTokens
     \/ metrics[s].queryCount >= limits.maxQueries
     \/ limits.timeout > 0 /\ now - metrics[s].startTime >= limits.timeout

\* checkLimits denies the session at the admission of a message.
AdmissionDenied(s) ==
  s \in DOMAIN sessions /\ ~checkLimits(metrics, limits, s, now).allowed

\* C3: once a session's metrics have reached a limit, no step of the
\* Orchestrator, those of a message already in flight included, increases the
\* session's totalTokens or queryCount until initSession is called again.
C3_NoRecordingAfterLimit ==
  [][\A s \in OrchSessions :
       (LimitReached(s) /\ s \in DOMAIN metrics') =>
          /\ metrics'[s].totalTokens <= metrics[s].totalTokens
          /\ metrics'[s].queryCount <= metrics[s].queryCount]_vars

\* C7: when checkLimits denies at admission, processMessage returns at once
\* with the blocked response that carries the denial reason, having made no
\* completion call and no tool call, and the session context (history,
\* working memory, current plan) and the metrics are what they were.
C7_DenialLeavesSessionUntouched ==
  [][\A s \in OrchSessions : \A msg \in UserMessages :
       (AdmissionDenied(s) /\ StartMessage(s, msg)) =>
          /\ calls'[s].pc = "idle"
          /\ ~calls'[s].threw
          /\ calls'[s].response =
               BlockedResponse(checkLimits(metrics, limits, s, now).reason)
          /\ calls'[s].completions = 0
          /\ calls'[s].toolRounds = 0
          /\ sessions' = sessions
          /\ metrics' = metrics]_vars

\* A second processMessage was blocked on the query limit: the session still
\* holds the one message pair of the first call.
C7_Witness ==
  /\ calls["s1"].pc = "idle"
  /\ calls["s1"].kind = "message"
  /\ calls["s1"].served = 2
  /\ calls["s1"].response.kind = "blocked"
  /\ calls["s1"].response.reason.kind = QueryReason
  /\ calls["s1"].completions = 0
  /\ Len(sessions["s1"].conversationHistory) = 2

\* C8: for a session that checkLimits denies, processMessageStream makes no
\* completion call and appends nothing to the conversation history.
C8_StreamAdmission ==
  [][\A s \in OrchSessions : \A msg \in UserMessages :
       (AdmissionDenied(s) /\ StartStream(s, msg)) =>
          /\ calls'[s].completions = 0
          /\ sessions'[s].conversationHistory = sessions[s].conversationHistory]_vars

\* String.includes("limit") over the reason templates of checkLimits.
containsLimit(text) == text \in {TokenReason, QueryReason}

\* C9: with maxQueries = 1 on a freshly created session, a first
\* processMessage that succeeds has recorded exactly one query, and the
\* second processMessage then returns a blocked response whose content
\* contains "limit", having made no completion call.
C9_QueryBudgetScenario ==
  ( /\ limits.maxQueries = 1
    /\ calls["s1"].pc = "idle"
    /\ calls["s1"].first \in {"simple_query", "complex_task"} ) =>
      /\ calls["s1"].served = 1 => metrics["s1"].queryCount = 1
      /\ (calls["s1"].served = 2 /\ calls["s1"].kind = "message") =>
            /\ calls["s1"].response.kind = "blocked"
            /\ containsLimit(calls["s1"].response.reason.kind)
            /\ calls["s1"].completions = 0

\* Where a step first occurs in a trace (0: nowhere), and how often.
Pos(trace, step) ==
  IF \E i \in 1..Len(trace) : trace[i] = step
    THEN CHOOSE i \in 1..Len(trace) : trace[i] = step /\ \A j \in 1..(i - 1) : trace[j] # step
    ELSE 0
Count(trace, step) == Cardinality({i \in 1..Len(trace) : trace[i] = step})

\* A processMessage that was admitted and returned an answer.
Answered(s) ==
  /\ calls[s].pc = "idle"
  /\ calls[s].kind = "message"
  /\ calls[s].response.kind = "answer"

\* The orders of steps C21 states for the direct path and for the plan path,
\* without and with a revision.
StatedOrders ==
  { <<"admission", "append_user", "classify", "tools", "append_assistant", "usage_record">>,
    <<"admission", "append_user", "classify", "plan_create", "plan_execute", "detect",
      "evaluate", "synthesize", "append_assistant", "usage_record">>,
    <<"admission", "append_user", "classify", "plan_create", "plan_execute", "detect",
      "detect_llm", "revise", "evaluate", "synthesize", "append_assistant",
      "usage_record">> }

\* C21: a processMessage that passes admission and returns an answer has
\* taken its steps in the order admission, append user message, classify,
\* path body, append assistant response, usage record, on the direct path
\* and on the plan path alike.
C21_StepOrder ==
  \A s \in OrchSessions : Answered(s) => calls[s].trace \in StatedOrders

\* C22: on the plan path detectErrors is entered only when executePlan has
\* returned, and after it; it calls the model exactly when some result
\* failed; revisePlan is called exactly when some result failed, once, in
\* overwrite mode, and before evaluateResult.
C22_ReviseOnceOnFailure ==
  /\ [](\A s \in OrchSessions :
          LET c == calls[s]
          IN /\ Pos(c.trace, "detect") > 0 =>
                  /\ Pos(c.trace, "plan_execute") > 0
                  /\ Pos(c.trace, "plan_execute") < Pos(c.trace, "detect")
                  /\ Count(c.trace, "revise") <= 1
             /\ (c.pc # "idle" /\ Pos(c.trace, "detect") > 0) =>
                  /\ c.ex.pc = "done"
                  /\ Pos(c.trace, "detect_llm") > 0 <=> HasFailure(c.ex.results)
             /\ c.pc = "detect" => Pos(c.trace, "revise") = 0
             /\ c.pc \in {"revise", "evaluate", "synthesize"} =>
                  /\ Count(c.trace, "revise") = 1 <=> HasFailure(c.ex.results)
                  /\ Pos(c.trace, "revise") > 0 => Pos(c.trace, "detect") < Pos(c.trace, "revise")
             /\ Pos(c.trace, "evaluate") > 0 =>
                  /\ Count(c.trace, "evaluate") = 1
                  /\ Pos(c.trace, "revise") < Pos(c.trace, "evaluate")
                  /\ Pos(c.trace, "detect") < Pos(c.trace, "evaluate"))
  /\ [][\A s \in OrchSessions :
          /\ (Pos(calls[s].trace, "detect") = 0 /\ Pos(calls'[s].trace, "detect") > 0) =>
               /\ calls[s].pc \in {"plan_create", "plan_exec"}
               /\ calls'[s].ex.pc = "done"
               /\ calls'[s].completions = calls[s].completions + 1
          /\ (calls[s].pc = "revise" /\ calls'[s].pc = "evaluate") =>
               \E reply \in OrchPlanReplies :
                 sessions'[s].currentPlan = revisePlanOverwrite(planOf(calls[s]), reply)]_vars

\* A plan-path message was answered after a failed task led to one revision.
C22_Witness ==
  /\ Answered("s1")
  /\ calls["s1"].intent = "complex_task"
  /\ Count(calls["s1"].trace, "revise") = 1
  /\ Pos(calls["s1"].trace, "revise") = Pos(calls["s1"].trace, "evaluate") - 1

\* The completion calls a call of the pipeline awaits.
CompletionPcs ==
  {"classify", "tools_llm", "tools_final", "plan_create", "detect", "revise",
   "evaluate", "synthesize"}

StatedEventTypes == {"status", "text", "tool_start", "tool_end", "error", "done"}

\* C28: every event processMessageStream yields has one of the stated types,
\* and a stream that has ended did not throw to its consumer and yielded
\* done or error last.
C28_StreamEvents ==
  \A s \in OrchSessions :
    calls[s].kind = "stream" =>
      /\ \A i \in 1..Len(calls[s].events) : calls[s].events[i] \in StatedEventTypes
      /\ (calls[s].pc = "idle" /\ s \in DOMAIN sessions) =>
           /\ ~calls[s].threw
           /\ calls[s].events # <<>>
           /\ calls[s].events[Len(calls[s].events)] \in {"done", "error"}

\* C29: after the first processMessage of a session was answered on the
\* direct path, the session's totalTokens is the total the provider reported
\* for the classification call plus the total of the merged usage that
\* executeWithTools returned.
C29_ToolLoopUsageRecorded ==
  \A s \in OrchSessions :
    (Answered(s) /\ calls[s].intent = "simple_query" /\ calls[s].served = 1
       /\ s \in DOMAIN metrics)
      => metrics[s].totalTokens = calls[s].tokens

\* ------------------------------------------------ Executor: executeWithTools

\* A reply of the model requests at most MaxToolCalls tool calls.
MaxToolCalls == 3

\* What becomes of one requested call in executeToolCalls: the tool runs and
\* returns a value; the tool runs and returns undefined; the registry has no
\* tool of that name; the arguments are not JSON; the arguments fail the
\* tool's schema; execute throws or rejects.
ToolCallKinds ==
  {"ok", "ok_undefined", "unknown_tool", "bad_json", "invalid_args", "execute_throws"}

\* The kinds that throw before tool.execute is called.
ThrowsBeforeExecute == {"unknown_tool", "bad_json", "invalid_args"}

\* response.tool_calls: the i-th requested call has id i and kind calls[i].
ToolCallLists == UNION {[1..n -> ToolCallKinds] : n \in 0..MaxToolCalls}

\* How the Executor is set up: whether the registry holds tools
\* (getOpenAITools() non-empty), whether the LLMClient was constructed with
\* tools in its default config, and the provider behind the client: one that
\* reports usage with every reply and requests any list of calls, or one
\* that reports usage with some replies only and requests one call at a time.
ToolSetups ==
  { [registry |-> r[1], defaultTools |-> r[2], usage |-> u] :
      r \in {<<TRUE, FALSE>>, <<TRUE, TRUE>>, <<FALSE, FALSE>>},
      u \in {"always", "optional"} }

\* The replies the provider of a setup may give to a completion call.
ProviderReplies(setup) ==
  IF setup.usage = "always"
    THEN {[tool_calls |-> l, usage |-> u] :
            l \in ToolCallLists, u \in ProviderUsages \ {UndefinedUsage}}
    ELSE {[tool_calls |-> l, usage |-> u] :
            l \in {<<>>, <<"ok">>}, u \in ProviderUsages}

\* toolConfig.tools: tools.length > 0 ? { tools } : {}
toolConfigTools(setup) == IF setup.registry THEN "registry" ELSE "undefined"

\* LLMClient.complete: tools: config?.tools ?? this.defaultConfig.tools
mergedConfigTools(configTools, setup) ==
  IF configTools # "undefined" THEN configTools
  ELSE IF setup.defaultTools THEN "default" ELSE "undefined"

\* The entry executeToolCalls returns for the call with the given id and kind.
toolCallEntry(id, kind) ==
  IF kind = "ok"
    THEN [toolCallId |-> id, result |-> "value", error |-> "undefined"]
  ELSE IF kind = "ok_undefined"
    THEN [toolCallId |-> id, result |-> "undefined", error |-> "undefined"]
  ELSE [toolCallId |-> id, result |-> "null", error |-> kind]

\* result.error ? { error: result.error } : result.result
toolPayload(entry) ==
  IF entry.error # "undefined" THEN "error_object" ELSE entry.result

\* formatToolContent throws: JSON.stringify(undefined) is undefined, which
\* safeStringify returns as it is, and `json.length` is then a TypeError.
formatToolContentThrows(payload) == payload = "undefined"

\* The messages appended after a round: the assistant message that carries
\* the tool calls, then one tool message per result.
roundMessages(results) ==
  <<[role |-> "assistant", tool_call_id |-> 0]>>
    \o [k \in 1..Len(results) |-> [role |-> "tool", tool_call_id |-> results[k].toolCallId]]

NoResult == [returned |-> FALSE]

\* The frame of executeWithTools at its first await, the initial completion
\* call.  pc: "llm" (awaiting a completion call made with toolConfig), "tools"
\* (awaiting Promise.all in executeToolCalls), "final" (awaiting the call made
\* with {}), "done" (returned), "threw".  replies counts the completion calls
\* that have returned, toolsSent is what the provider got as `tools` in the
\* call in flight or last made; sum and reported add up the usage of the
\* replies; rounds counts the calls of executeToolCalls; toolCallsFrom holds
\* the numbers of the replies whose tool calls were pushed onto toolCalls;
\* appended holds the messages the latest round appended to the transcript.
executeWithToolsEnter(setup) ==
  [ pc |-> "llm", setup |-> setup, iteration |-> 0,
    tool_calls |-> <<>>, mergedUsage |-> UndefinedUsage,
    pending |-> {}, entries |-> <<>>, appended |-> <<>>,
    toolsSent |-> mergedConfigTools(toolConfigTools(setup), setup),
    replies |-> 0,
    sum |-> [prompt_tokens |-> 0, completion_tokens |-> 0, total_tokens |-> 0],
    reported |-> FALSE, rounds |-> 0, finalCalls |-> 0,
    toolCallsFrom |-> {}, result |-> NoResult ]

\* A completion call returns `reply`: mergedUsage is response.usage after
\* the initial call and mergeUsage(mergedUsage, response.usage) after the
\* later ones.
replyReceived(e, reply) ==
  [e EXCEPT !.tool_calls = reply.tool_calls,
            !.mergedUsage = IF e.replies = 0 THEN reply.usage
                            ELSE mergeUsage(@, reply.usage),
            !.sum = [ prompt_tokens |-> @.prompt_tokens + FieldOr0(reply.usage, "prompt_tokens"),
                      completion_tokens |-> @.completion_tokens
                                              + FieldOr0(reply.usage, "completion_tokens"),
                      total_tokens |-> @.total_tokens + FieldOr0(reply.usage, "total_tokens") ],
            !.reported = @ \/ isDefined(reply.usage),
            !.replies = @ + 1]

\* The ExecutionResult returned: usage is mergedUsage ?? response.usage and
\* tokensUsed its total_tokens (-1 stands for undefined); toolCalls lists the
\* calls pushed in the loop, toolResults the entries.
returnResult(e) ==
  [e EXCEPT !.pc = "done",
            !.result = [ returned |-> TRUE, success |-> TRUE,
                         usage |-> e.mergedUsage,
                         tokensUsed |-> IF isDefined(e.mergedUsage)
                                          THEN e.mergedUsage.total_tokens ELSE -1,
                         toolCallsFrom |-> e.toolCallsFrom ]]

executeToolCallsFailFast(e) ==
  LET n == Len(e.tool_calls)
      early == {i \in 1..n : e.tool_calls[i] \in ThrowsBeforeExecute}
  IN IF early # {}
       THEN [e EXCEPT !.pc = "threw", !.rounds = @ + 1]
       ELSE [e EXCEPT !.pc = "tools",
                      !.toolCallsFrom = @ \cup {e.replies},
                      !.rounds = @ + 1,
                      !.pending = 1..n,
                      !.entries = <<>>]

\* executeToolCalls up to its await: every async callback has run up to its
\* first await, so the calls that throw before tool.execute have their entry
\* and the others are pending on tool.execute.
executeToolCallsEnter(e) ==
  LET n == Len(e.tool_calls)
      early == {i \in 1..n : e.tool_calls[i] \in ThrowsBeforeExecute}
  IN [e EXCEPT !.pc = "tools",
               !.toolCallsFrom = @ \cup {e.replies},
               !.rounds = @ + 1,
               !.pending = (1..n) \ early,
               !.entries = [i \in early |-> toolCallEntry(i, e.tool_calls[i])]]

promiseAllReversed(e) ==
  [k \in 1..Len(e.tool_calls) |-> e.entries[Len(e.tool_calls) + 1 - k]]

\* Promise.all: the entries in the order of the calls.
promiseAll(e) == [k \in 1..Len(e.tool_calls) |-> e.entries[k]]

otherVarsOfTools == <<limits, metrics, now, lastCall, sessions, calls>>

InitTools ==
  /\ \E setup \in ToolSetups : ex = executeWithToolsEnter(setup)
  /\ limits = CostControllerNew(<<>>)
  /\ metrics = EmptyMap
  /\ now = 0
  /\ lastCall = NoCall
  /\ sessions = EmptyMap
  /\ calls = NoCalls

\* A completion call of the loop returns: without tool calls the turn
\* returns; within the iteration bound the calls are dispatched; beyond it
\* the final call is made with {} as its config.
LlmReturns(reply) ==
  /\ ex.pc = "llm"
  /\ LET e == replyReceived(ex, reply)
     IN ex' = IF Len(reply.tool_calls) = 0 THEN returnResult(e)
              ELSE IF e.iteration < maxToolIterations THEN executeToolCallsEnter(e)
              ELSE [e EXCEPT !.pc = "final", !.finalCalls = @ + 1,
                             !.tool_calls = <<>>,
                             !.toolsSent = mergedConfigTools("undefined", e.setup)]
  /\ UNCHANGED otherVarsOfTools

\* tool.execute of one pending call settles, in any order among the pending.
ToolSettles(i) ==
  /\ ex.pc = "tools"
  /\ i \in ex.pending
  /\ ex' = [ex EXCEPT !.pending = @ \ {i},
                      !.entries = MapSet(@, i, toolCallEntry(i, ex.tool_calls[i]))]
  /\ UNCHANGED otherVarsOfTools

\* Promise.all resolves: the tool messages are built (formatToolContent may
\* throw, and nothing catches it) and appended to the transcript, and the
\* model is called again with toolConfig.  The reply just handled is not
\* read again: `response` is assigned when the call returns.
ToolCallsResolve ==
  /\ ex.pc = "tools"
  /\ ex.pending = {}
  /\ LET results == promiseAll(ex)
     IN ex' = IF \E k \in 1..Len(results) : formatToolContentThrows(toolPayload(results[k]))
                THEN [ex EXCEPT !.pc = "threw"]
                ELSE [ex EXCEPT !.pc = "llm",
                                !.tool_calls = <<>>,
                                !.appended = roundMessages(results),
                                !.entries = <<>>,
                                !.iteration = @ + 1,
                                !.toolsSent =
                                  mergedConfigTools(toolConfigTools(ex.setup), ex.setup)]
  /\ UNCHANGED otherVarsOfTools

\* The final call returns; whatever tool calls it carries are not dispatched.
FinalReturns(reply) ==
  /\ ex.pc = "final"
  /\ ex' = returnResult(replyReceived(ex, reply))
  /\ UNCHANGED otherVarsOfTools

\* A completion call throws: executeWithTools has no try block around it.
CompleteThrows ==
  /\ ex.pc \in {"llm", "final"}
  /\ ex' = [ex EXCEPT !.pc = "threw"]
  /\ UNCHANGED otherVarsOfTools

NextTools ==
  \/ /\ ex.pc = "llm"
     /\ \E reply \in ProviderReplies(ex.setup) : LlmReturns(reply)
  \/ \E i \in ex.pending : ToolSettles(i)
  \/ ToolCallsResolve
  \/ /\ ex.pc = "final"
     /\ \E reply \in ProviderReplies(ex.setup) : FinalReturns(reply)
  \/ CompleteThrows

SpecTools == InitTools /\ [][NextTools]_vars

\* ------------------------------------------------- executeWithTools: claims

\* C15: tool calls are dispatched in at most 8 rounds; the final call is made
\* at most once, only after the 8th round, and the provider gets no tool
\* descriptors in it; when the turn returns after a final call, ten replies
\* were received and the tool calls listed in the result are those of the
\* first eight, so none of the ninth or of the final reply; without a final
\* call the last reply requested no tool.
C15_ToolLoopBound ==
  ex.pc \in {"llm", "tools", "final", "done", "threw"} =>
    /\ ex.rounds <= 8
    /\ ex.finalCalls <= 1
    /\ ex.pc = "final" =>
         /\ ex.rounds = 8 /\ ex.finalCalls = 1
         /\ ex.toolsSent = "undefined"
    /\ ex.pc = "done" =>
         /\ ex.result.toolCallsFrom = 1..ex.rounds
         /\ ex.finalCalls = 1 => (ex.rounds = 8 /\ ex.replies = 10)
         /\ ex.finalCalls = 0 => (ex.replies = ex.rounds + 1 /\ ex.tool_calls = <<>>)

\* C16: when Promise.all resolves, whatever the order in which the calls
\* settled, every requested call has its entry, the i-th entry carries the id
\* of the i-th call, and the transcript is extended by the assistant message
\* and then exactly one tool message per call, keyed by the call's id, in
\* call order; the model's next reply comes after that.
C16_ResultOrder ==
  [][(ex.pc = "tools" /\ ex'.pc = "llm") =>
       LET n == Len(ex.tool_calls)
       IN /\ ex.pending = {}
          /\ DOMAIN ex.entries = 1..n
          /\ \A i \in 1..n : ex.entries[i].toolCallId = i
          /\ Len(ex'.appended) = n + 1
          /\ ex'.appended[1].role = "assistant"
          /\ \A i \in 1..n : ex'.appended[i + 1] = [role |-> "tool", tool_call_id |-> i]
          /\ ex'.replies = ex.replies]_vars

\* A round of three calls has resolved and its three tool messages are in
\* the transcript of the call in flight.
C16_Witness ==
  /\ ex.pc = "llm"
  /\ ex.rounds = 2
  /\ ex.appended = << [role |-> "assistant", tool_call_id |-> 0],
                      [role |-> "tool", tool_call_id |-> 1],
                      [role |-> "tool", tool_call_id |-> 2],
                      [role |-> "tool", tool_call_id |-> 3] >>

C18_UsageIsSum ==
  ex.pc = "done" => ex.result.usage = ex.sum

\* C18: the usage returned is the component-wise sum of the usage of every
\* reply of the turn, a reply without usage counting as 0, when at least one
\* reply reported usage; when none did, usage and tokensUsed are undefined.
C18_UsageMerged ==
  ex.pc = "done" =>
    IF ex.reported
      THEN /\ ex.result.usage = ex.sum
           /\ ex.result.tokensUsed = ex.sum.total_tokens
      ELSE /\ ex.result.usage = UndefinedUsage
           /\ ex.result.tokensUsed = -1

\* The turn returned after the full loop and the final call, and of its ten
\* replies all but two (the first among them) reported usage.
C18_Witness ==
  /\ ex.pc = "done"
  /\ ex.replies = 10
  /\ ex.finalCalls = 1
  /\ ex.result.usage = [prompt_tokens |-> 8, completion_tokens |-> 16, total_tokens |-> 24]

\* --------------------------------------- session checkpoints: chat.ts model

\* Entries the conversation history grows to when the context is driven
\* directly.
MaxHistory == 2

\* User messages typed into one run of runChat.
MaxMessages == 2

ChatSession == "s1"

\* Keys of working memory in use.
MemoryKeys == {"k1", "k2"}

\* JavaScript values put in working memory (Map<string, unknown>): a string,
\* null, undefined and a Date.
MemoryValues == {"str:a", "null", "undefined", "Date:0"}

\* ensureSerializable: JSON.parse(JSON.stringify(value)), and String(value)
\* when that throws. JSON.stringify(undefined) is undefined, which JSON.parse
\* rejects, so undefined becomes the string "undefined"; NaN is written as
\* null; a Date is written as its ISO string and read back as that string.
ensureSerializable(value) ==
  CASE value = "undefined" -> "str:undefined"
    [] value = "NaN" -> "null"
    [] value = "Date:0" -> "str:1970-01-01T00:00:00.000Z"
    [] OTHER -> value

\* serializeWorkingMemory: Object.fromEntries of the entries, each value
\* through ensureSerializable. The order of the entries is not modelled.
serializeWorkingMemory(memory) ==
  [k \in DOMAIN memory |-> ensureSerializable(memory[k])]

\* Arrays, Maps and plain objects live in a heap and are held by reference,
\* as in JavaScript. A new object takes the first free address.
alloc(heap) ==
  CHOOSE r \in 1..(Cardinality(DOMAIN heap) + 1) :
    /\ r \notin DOMAIN heap
    /\ \A q \in 1..(r - 1) : q \in DOMAIN heap

\* The objects a context and a list of checkpoints refer to.
rootsOf(context, checkpoints) ==
  {context.conversationHistory, context.workingMemory}
    \cup {checkpoints[i].conversationHistory : i \in 1..Len(checkpoints)}
    \cup {checkpoints[i].workingMemory : i \in 1..Len(checkpoints)}

\* Garbage collection: objects nothing refers to are gone.
collect(heap, roots) == [r \in (DOMAIN heap) \cap roots |-> heap[r]]

\* createCheckpoint that keeps the context's own array instead of a copy.
createCheckpointShared(heap, context) ==
  LET m == alloc(heap)
  IN [ heap |-> MapSet(heap, m, serializeWorkingMemory(heap[context.workingMemory])),
       checkpoint |-> [ conversationHistory |-> context.conversationHistory,
                        workingMemory |-> m ] ]

\* SessionStore.createCheckpoint: a new array with the entries of the
\* history and a new object from serializeWorkingMemory. The id and the
\* timestamp of the checkpoint are read by nothing and left out.
createCheckpoint(heap, context) ==
  LET h == alloc(heap)
      heap1 == MapSet(heap, h, heap[context.conversationHistory])
      m == alloc(heap1)
  IN [ heap |-> MapSet(heap1, m, serializeWorkingMemory(heap[context.workingMemory])),
       checkpoint |-> [conversationHistory |-> h, workingMemory |-> m] ]

\* applyCheckpoint: the context gets a new array with the checkpoint's
\* entries, a new Map from Object.entries of the checkpoint's object (the
\* same keys, all strings, with the same values), and no plan.
applyCheckpoint(heap, context, checkpoint) ==
  LET h == alloc(heap)
      heap1 == MapSet(heap, h, heap[checkpoint.conversationHistory])
      m == alloc(heap1)
  IN [ heap |-> MapSet(heap1, m, heap[checkpoint.workingMemory]),
       context |-> [context EXCEPT !.conversationHistory = h,
                                   !.workingMemory = m,
                                   !.currentPlan = NoPlan] ]

\* restoreCheckpoint that takes the oldest checkpoint (shift) instead of the
\* newest.
restoreCheckpointOldest(heap, checkpoints, context) ==
  IF checkpoints = <<>>
    THEN [heap |-> heap, checkpoints |-> checkpoints, context |-> context]
    ELSE LET applied == applyCheckpoint(heap, context, checkpoints[1])
         IN [ heap |-> applied.heap,
              checkpoints |-> SubSeq(checkpoints, 2, Len(checkpoints)),
              context |-> applied.context ]

\* restoreCheckpoint: state.checkpoints.pop(); without a checkpoint a warning
\* and nothing else; otherwise applyCheckpoint. The copy of history and
\* memory kept in the SessionState and written to the session file is read
\* by no step followed here and left out.
restoreCheckpoint(heap, checkpoints, context) ==
  IF checkpoints = <<>>
    THEN [heap |-> heap, checkpoints |-> checkpoints, context |-> context]
    ELSE LET applied == applyCheckpoint(heap, context, checkpoints[Len(checkpoints)])
         IN [ heap |-> applied.heap,
              checkpoints |-> SubSeq(checkpoints, 1, Len(checkpoints) - 1),
              context |-> applied.context ]

\* clearSession: a new empty array, a new empty Map, no plan.
clearSession(heap, context) ==
  LET h == alloc(heap)
      heap1 == MapSet(heap, h, <<>>)
      m == alloc(heap1)
  IN [ heap |-> MapSet(heap1, m, EmptyMap),
       context |-> [context EXCEPT !.conversationHistory = h,
                                   !.workingMemory = m,
                                   !.currentPlan = NoPlan] ]

\* ContextManager.createSession followed by loadSessionState: the context's
\* array and Map hold what the session file held, nothing for a new session.
loadedContext(history, memory) ==
  [ heap |-> (1 :> history) @@ (2 :> memory),
    context |-> [ sessionId |-> ChatSession, conversationHistory |-> 1,
                  workingMemory |-> 2, currentPlan |-> NoPlan ] ]

\* The frame that follows a context and its checkpoints: the heap, the list
\* state.checkpoints, per checkpoint the history and memory the context had
\* when it was taken, the last operation, the number of user messages, and
\* what the context held before the last restore overwrote it.
NotDropped == [restored |-> FALSE]

\* The history and the working memory of the SessionState, which saveSession
\* writes to the session file as JSON: the values themselves, not references.
\* After loadSessionState they are what the file held, or what createState
\* made.
chatFrame(heap) ==
  [ heap |-> heap, checkpoints |-> <<>>, before |-> <<>>, last |-> "start",
    messages |-> 0, dropped |-> NotDropped,
    saved |-> [conversationHistory |-> heap[1], workingMemory |-> heap[2]] ]

LiveContext == sessions[ChatSession]
LiveHistory == ex.heap[LiveContext.conversationHistory]
LiveMemory == ex.heap[LiveContext.workingMemory]
CheckpointHistory(i) == ex.heap[ex.checkpoints[i].conversationHistory]
CheckpointMemory(i) == ex.heap[ex.checkpoints[i].workingMemory]

otherVarsOfChat == <<limits, metrics, now, lastCall, calls>>

\* The context and the frame after an operation that left the context, the
\* checkpoints and the saved SessionState as given.
chatStepSaved(heap, context, checkpoints, before, last, messages, dropped, saved) ==
  /\ sessions' = [sessions EXCEPT ![ChatSession] = context]
  /\ ex' = [ heap |-> collect(heap, rootsOf(context, checkpoints)),
             checkpoints |-> checkpoints, before |-> before, last |-> last,
             messages |-> messages, dropped |-> dropped, saved |-> saved ]
  /\ UNCHANGED otherVarsOfChat

\* The same after an operation that saved no SessionState.
chatStep(heap, context, checkpoints, before, last, messages, dropped) ==
  chatStepSaved(heap, context, checkpoints, before, last, messages, dropped,
                ex.saved)

InitContext(histories, memories) ==
  /\ \E history \in histories : \E memory \in memories :
       LET loaded == loadedContext(history, memory)
       IN /\ sessions = (ChatSession :> loaded.context)
          /\ ex = chatFrame(loaded.heap)
  /\ limits = CostControllerNew(<<>>)
  /\ metrics = EmptyMap
  /\ now = 0
  /\ lastCall = NoCall
  /\ calls = NoCalls

\* ---- the context driven directly, with one checkpoint at a time

HistoryEntries ==
  {[role |-> "user", content |-> "a"], [role |-> "assistant", content |-> "b"]}

InitCheckpoint == InitContext({<<>>}, {EmptyMap})

\* ContextManager.addMessage: push on the context's array.
AddMessage(entry) ==
  /\ Len(LiveHistory) < MaxHistory
  /\ chatStep([ex.heap EXCEPT ![LiveContext.conversationHistory] = Append(@, entry)],
              LiveContext, ex.checkpoints, ex.before, "mutate", ex.messages,
              NotDropped)

\* ContextManager.setWorkingMemory: Map.set on the context's Map.
SetWorkingMemory(key, value) ==
  chatStep([ex.heap EXCEPT ![LiveContext.workingMemory] = MapSet(@, key, value)],
           LiveContext, ex.checkpoints, ex.before, "mutate", ex.messages,
           NotDropped)

\* Map.delete on the context's Map.
DeleteWorkingMemory(key) ==
  /\ key \in DOMAIN LiveMemory
  /\ chatStep([ex.heap EXCEPT ![LiveContext.workingMemory] = MapDelete(@, key)],
              LiveContext, ex.checkpoints, ex.before, "mutate",
              ex.messages, NotDropped)

\* ContextManager.clearWorkingMemory: Map.clear on the context's Map.
ClearWorkingMemory ==
  /\ DOMAIN LiveMemory # {}
  /\ chatStep([ex.heap EXCEPT ![LiveContext.workingMemory] = EmptyMap],
              LiveContext, ex.checkpoints, ex.before, "mutate",
              ex.messages, NotDropped)

\* store.createCheckpoint(context) and state.checkpoints.push(checkpoint)
TakeCheckpoint ==
  /\ ex.checkpoints = <<>>
  /\ LET made == createCheckpoint(ex.heap, LiveContext)
     IN chatStep(made.heap, LiveContext, Append(ex.checkpoints, made.checkpoint),
                 Append(ex.before, [history |-> LiveHistory, memory |-> LiveMemory]),
                 "createCheckpoint", ex.messages, NotDropped)

\* restoreCheckpoint(reporter, store, context, state, setState), with the
\* context driven directly: the session file is not followed.
Restore ==
  LET r == restoreCheckpoint(ex.heap, ex.checkpoints, LiveContext)
  IN chatStep(r.heap, r.context, r.checkpoints,
              SubSeq(ex.before, 1, Len(ex.before) - 1),
              IF ex.checkpoints = <<>> THEN "restoreNone" ELSE "restore",
              ex.messages,
              IF ex.checkpoints = <<>> THEN NotDropped
              ELSE [restored |-> TRUE, history |-> LiveHistory, memory |-> LiveMemory])

NextCheckpoint ==
  \/ \E entry \in HistoryEntries : AddMessage(entry)
  \/ \E key \in MemoryKeys : \E value \in MemoryValues : SetWorkingMemory(key, value)
  \/ \E key \in MemoryKeys : DeleteWorkingMemory(key)
  \/ ClearWorkingMemory
  \/ TakeCheckpoint
  \/ Restore

SpecCheckpoint == InitCheckpoint /\ [][NextCheckpoint]_vars

\* ---- runChat: user messages, /restore and /clear

ChatTexts == {"a", "b"}

\* What runMessage leaves behind: the orchestrator denied the message and
\* appended nothing; it appended the user message and failed; it appended
\* the user message and its answer; the same with a plan left in the context.
ChatOutcomes == {"denied", "failed", "answered", "planned"}

ChatPlan == [goal |-> "goal", tasks |-> <<>>, currentTaskIndex |-> 0]

\* The entries runMessage appends to the history.
runMessageAppends(text, outcome) ==
  CASE outcome = "denied" -> <<>>
    [] outcome = "failed" -> <<[role |-> "user", content |-> text]>>
    [] OTHER -> << [role |-> "user", content |-> text],
                   [role |-> "assistant", content |-> "reply"] >>

\* A session file holds JSON: every value in a loaded memory is one that
\* JSON.parse produces.
InitChat ==
  InitContext({<<>>, <<[role |-> "user", content |-> "old"]>>},
              {EmptyMap, "k1" :> "str:a", ("k1" :> "str:a") @@ ("k2" :> "null")})

\* SessionStore.updateStateFromContext: the state with a copy of the
\* context's history and with its working memory through
\* serializeWorkingMemory.
updateStateFromContext(heap, context) ==
  [ conversationHistory |-> heap[context.conversationHistory],
    workingMemory |-> serializeWorkingMemory(heap[context.workingMemory]) ]

\* restoreCheckpoint, the state it saves: without a checkpoint it returns
\* before setState and saveSession; otherwise the state takes the history
\* and the memory of the checkpoint popped.
restoredState(heap, checkpoints, saved) ==
  IF checkpoints = <<>>
    THEN saved
    ELSE [ conversationHistory |-> heap[checkpoints[Len(checkpoints)].conversationHistory],
           workingMemory |-> heap[checkpoints[Len(checkpoints)].workingMemory] ]

\* clearSession, the state it returns: {...state, conversationHistory: [],
\* workingMemory: {}}; the spread keeps state.checkpoints.
clearedState(checkpoints) ==
  [ checkpoints |-> checkpoints,
    saved |-> [conversationHistory |-> <<>>, workingMemory |-> EmptyMap] ]

\* A line that is not a command: the checkpoint is taken and pushed and the
\* state saved, runMessage lets the orchestrator process the message and
\* catches what it throws, then the state is updated from the context and
\* saved again.
ChatMessage(text, outcome) ==
  /\ ex.messages < MaxMessages
  /\ LET made == createCheckpoint(ex.heap, LiveContext)
         heap1 == [made.heap EXCEPT ![LiveContext.conversationHistory] =
                     @ \o runMessageAppends(text, outcome)]
         context == IF outcome = "planned"
                      THEN [LiveContext EXCEPT !.currentPlan = ChatPlan]
                      ELSE LiveContext
     IN chatStepSaved(heap1, context, Append(ex.checkpoints, made.checkpoint),
                      Append(ex.before, [history |-> LiveHistory, memory |-> LiveMemory]),
                      "message", ex.messages + 1, NotDropped,
                      updateStateFromContext(heap1, context))

\* /restore: restoreCheckpoint, then setState and saveSession of the state
\* it made.
ChatRestore ==
  LET r == restoreCheckpoint(ex.heap, ex.checkpoints, LiveContext)
  IN chatStepSaved(r.heap, r.context, r.checkpoints,
                   SubSeq(ex.before, 1, Len(ex.before) - 1),
                   IF ex.checkpoints = <<>> THEN "restoreNone" ELSE "restore",
                   ex.messages,
                   IF ex.checkpoints = <<>> THEN NotDropped
                   ELSE [restored |-> TRUE, history |-> LiveHistory, memory |-> LiveMemory],
                   restoredState(ex.heap, ex.checkpoints, ex.saved))

\* /clear that also empties the list of checkpoints.
ChatClearDropsCheckpoints ==
  LET c == clearSession(ex.heap, LiveContext)
  IN chatStepSaved(c.heap, c.context, <<>>, <<>>, "clear", ex.messages,
                   NotDropped, clearedState(<<>>).saved)

\* /clear: clearSession on the context, setState and saveSession of the
\* state it returns.
ChatClear ==
  LET c == clearSession(ex.heap, LiveContext)
      updated == clearedState(ex.checkpoints)
  IN chatStepSaved(c.heap, c.context, updated.checkpoints, ex.before, "clear",
                   ex.messages, NotDropped, updated.saved)

NextChat ==
  \/ \E text \in ChatTexts : \E outcome \in ChatOutcomes : ChatMessage(text, outcome)
  \/ ChatRestore
  \/ ChatClear

SpecChat == InitChat /\ [][NextChat]_vars

\* ------------------------------------------------ session checkpoints: claims

\* C19 as stated: a restore leaves the context with the history and the
\* working memory it had when the checkpoint was taken, whatever was appended,
\* set, deleted or cleared in between; and as long as a checkpoint is stored
\* it holds that history and that memory.
C19_RoundTripIdentical ==
  /\ [](\A i \in 1..Len(ex.checkpoints) :
          /\ CheckpointHistory(i) = ex.before[i].history
          /\ CheckpointMemory(i) = ex.before[i].memory)
  /\ [][ex'.last = "restore" =>
          /\ LiveHistory' = ex.before[Len(ex.before)].history
          /\ LiveMemory' = ex.before[Len(ex.before)].memory]_vars

\* C19: a restore leaves the context with the history it had when the
\* checkpoint was taken and with the working memory it had then, each value
\* as JSON writes and reads it back, whatever was appended, set, deleted or
\* cleared in between; as long as a checkpoint is stored it holds exactly
\* that history and that memory, in objects of its own.
C19_RoundTripSerialized ==
  /\ [](\A i \in 1..Len(ex.checkpoints) :
          /\ CheckpointHistory(i) = ex.before[i].history
          /\ CheckpointMemory(i) = serializeWorkingMemory(ex.before[i].memory)
          /\ {ex.checkpoints[i].conversationHistory, ex.checkpoints[i].workingMemory}
               \cap {LiveContext.conversationHistory, LiveContext.workingMemory} = {})
  /\ [][ex'.last = "restore" =>
          /\ LiveHistory' = ex.before[Len(ex.before)].history
          /\ LiveMemory' = serializeWorkingMemory(ex.before[Len(ex.before)].memory)]_vars

\* A restore has just overwritten a history and a memory that both differed
\* from the checkpoint's, and the memory it brought back holds two keys.
C19_Witness ==
  /\ ex.last = "restore"
  /\ ex.dropped.restored
  /\ ex.dropped.history # LiveHistory
  /\ Len(LiveHistory) = 1
  /\ DOMAIN ex.dropped.memory = {"k2"}
  /\ DOMAIN LiveMemory = {"k1", "k2"}

\* C20: the checkpoints are a stack of the states the context had just before
\* the user messages not yet rolled back, oldest first: a message pushes one
\* checkpoint, taken before it is processed; a restore removes the top one
\* only and leaves the context with the history and the working memory that
\* checkpoint was taken from; so after n messages, k restores in a row leave
\* the state from before the (n-k+1)-th message.
C20_CheckpointStack ==
  /\ [](/\ Len(ex.checkpoints) = Len(ex.before)
        /\ \A i \in 1..Len(ex.checkpoints) :
             /\ CheckpointHistory(i) = ex.before[i].history
             /\ CheckpointMemory(i) = ex.before[i].memory)
  /\ [][/\ ex'.last = "message" =>
             /\ Len(ex'.checkpoints) = Len(ex.checkpoints) + 1
             /\ SubSeq(ex'.checkpoints, 1, Len(ex.checkpoints)) = ex.checkpoints
             /\ ex'.heap[ex'.checkpoints[Len(ex'.checkpoints)].conversationHistory]
                  = LiveHistory
             /\ ex'.heap[ex'.checkpoints[Len(ex'.checkpoints)].workingMemory]
                  = LiveMemory
        /\ ex'.last = "restore" =>
             /\ ex'.checkpoints = SubSeq(ex.checkpoints, 1, Len(ex.checkpoints) - 1)
             /\ LiveHistory' = CheckpointHistory(Len(ex.checkpoints))
             /\ LiveMemory' = CheckpointMemory(Len(ex.checkpoints))
             /\ LiveHistory' = ex.before[Len(ex.before)].history
             /\ LiveMemory' = ex.before[Len(ex.before)].memory
        /\ ex'.last = "restoreNone" => (ex'.checkpoints = <<>> /\ sessions' = sessions)
       ]_vars

\* Two messages were answered and then two restores in a row brought back
\* the history from before the first message.
C20_Witness ==
  /\ ex.last = "restore"
  /\ ex.messages = 2
  /\ ex.checkpoints = <<>>
  /\ ex.dropped.restored
  /\ Len(ex.dropped.history) = 3
  /\ LiveHistory = <<[role |-> "user", content |-> "old"]>>
  /\ DOMAIN LiveMemory = {"k1", "k2"}

\* C37: /clear leaves the context with an empty history, an empty working
\* memory and no plan, saves an empty history and an empty memory, and leaves
\* the list of checkpoints and what each checkpoint holds as they were; a
\* /restore right after a /clear gives the context, and the saved state, the
\* history and the working memory of the last checkpoint and removes that
\* checkpoint only; a /restore with no checkpoint changes neither the
\* context, nor the saved state, nor the list.
C37_ClearKeepsCheckpoints ==
  [][/\ ex'.last = "clear" =>
          /\ LiveHistory' = <<>>
          /\ LiveMemory' = EmptyMap
          /\ LiveContext'.currentPlan = NoPlan
          /\ ex'.saved = [conversationHistory |-> <<>>, workingMemory |-> EmptyMap]
          /\ Len(ex'.checkpoints) = Len(ex.checkpoints)
          /\ \A i \in 1..Len(ex.checkpoints) :
               /\ CheckpointHistory(i)' = CheckpointHistory(i)
               /\ CheckpointMemory(i)' = CheckpointMemory(i)
     /\ (ex.last = "clear" /\ ex'.last = "restore") =>
          /\ ex.checkpoints # <<>>
          /\ LiveHistory' = CheckpointHistory(Len(ex.checkpoints))
          /\ LiveMemory' = CheckpointMemory(Len(ex.checkpoints))
          /\ ex'.saved = [ conversationHistory |-> CheckpointHistory(Len(ex.checkpoints)),
                           workingMemory |-> CheckpointMemory(Len(ex.checkpoints)) ]
          /\ LiveContext'.currentPlan = NoPlan
          /\ ex'.checkpoints = SubSeq(ex.checkpoints, 1, Len(ex.checkpoints) - 1)
     /\ ex'.last = "restoreNone" =>
          /\ ex.checkpoints = <<>>
          /\ ex'.checkpoints = <<>>
          /\ sessions' = sessions
          /\ ex'.heap = ex.heap
          /\ ex'.saved = ex.saved
    ]_vars

\* Two messages were answered, a /clear emptied the context, and the /restore
\* after it brought back the three entries and the two keys the context held
\* before the second message, in the context and in the saved state.
C37_Witness ==
  /\ ex.last = "restore"
  /\ ex.messages = 2
  /\ ex.dropped.restored
  /\ ex.dropped.history = <<>>
  /\ ex.dropped.memory = EmptyMap
  /\ Len(LiveHistory) = 3
  /\ DOMAIN LiveMemory = {"k1", "k2"}
  /\ ex.saved.conversationHistory = LiveHistory
  /\ Len(ex.checkpoints) = 1

\* ------------------------------------------------------------------ Planner

\* Replies list at most this many tasks.
MaxSubTasks == 2

\* content.slice(0, 200) of the fallback task
FallbackDescriptionChars == 200

\* A string is a window of a stream of characters of period 3: the position
\* of its first character in the stream, and its length.
Str(start, len) == [start |-> IF len = 0 THEN 0 ELSE start % 3, len |-> len]

\* String.prototype.slice(a, b) with 0 <= a and 0 <= b
slice(str, a, b) ==
  LET from == IF a < str.len THEN a ELSE str.len
      to == IF b < str.len THEN b ELSE str.len
  IN IF to <= from THEN Str(0, 0) ELSE Str(str.start + from, to - from)

IsPrefix(p, str) == p.len <= str.len /\ (p.len = 0 \/ p.start = str.start)

\* Array.prototype.slice(a) and slice(0, b) over a task list, 0-based
arraySlice(tasks, a, b) ==
  LET to == IF b < Len(tasks) THEN b ELSE Len(tasks)
  IN IF to <= a THEN <<>> ELSE SubSeq(tasks, a + 1, to)

\* A task object as a reply lists it: it may carry a status of its own.
ReplyTask(k, status) == [NewTask(10 + k, {}) EXCEPT !.status = status]

ReplyTaskLists ==
  UNION { [1..n -> {ReplyTask(k, st) : k \in 1..MaxSubTasks,
                                       st \in {"undefined", "completed"}}] :
          n \in 0..MaxSubTasks }

\* The `tasks` property of the object a reply parses to.
TasksProperties ==
  { [kind |-> "array", items |-> S] : S \in ReplyTaskLists }
    \cup { [kind |-> k, items |-> <<>>] : k \in {"undefined", "null", "string"} }

ContentLengths == {0, 1, 199, 200, 201, 400}

\* response.content || '' as parsePlanningResponse sees it: the text, what
\* /\{[\s\S]*\}/ and JSON.parse make of it, and the parsed object's tasks.
PlannerContents ==
  { [text |-> Str(1, n), json |-> "no_match", tasks |-> [kind |-> "undefined", items |-> <<>>]] :
      n \in ContentLengths }
    \cup { [text |-> Str(2, n), json |-> "invalid", tasks |-> [kind |-> "undefined", items |-> <<>>]] :
             n \in ContentLengths \ {0, 1} }
    \cup { [text |-> Str(0, 400), json |-> "object", tasks |-> t] : t \in TasksProperties }

\* Planner.parsePlanningResponse: the parsed object as it is, or the
\* fallback with one task described by the first 200 characters.
parsePlanningResponse(content) ==
  IF content.json = "object"
    THEN [reasoning |-> "parsed", tasks |-> content.tasks]
    ELSE [reasoning |-> "Failed to parse plan",
          tasks |-> [kind |-> "array",
                     items |-> << [id |-> 1,
                                   description |-> slice(content.text, 0,
                                                         FallbackDescriptionChars)] >>]]

\* tasks.map(t => ({...t, status: 'pending'})); the record of the fallback
\* task gains the field.
mapPending(items) ==
  [k \in 1..Len(items) |->
     IF "status" \in DOMAIN items[k]
       THEN [items[k] EXCEPT !.status = "pending"]
       ELSE [id |-> items[k].id, description |-> items[k].description,
             status |-> "pending"]]

\* result.tasks.map throws a TypeError unless result.tasks is an array.
mapThrows(result) == result.tasks.kind # "array"

\* What a Planner method leaves: whether it threw, the plan it returned,
\* and the plan object it was given as that object is after the call.
PlannerReturn(plan, currentPlan) ==
  [threw |-> FALSE, plan |-> plan, currentPlan |-> currentPlan]

PlannerThrow(currentPlan) ==
  [threw |-> TRUE, plan |-> NoPlan, currentPlan |-> currentPlan]

\* Planner.createPlan, from the reply of its completion call on
createPlan(goal, content) ==
  LET result == parsePlanningResponse(content)
  IN IF mapThrows(result) THEN PlannerThrow(NoPlan)
     ELSE PlannerReturn([goal |-> goal, tasks |-> mapPending(result.tasks.items),
                         currentTaskIndex |-> 0], NoPlan)

\* A decomposeCurrentTask that keeps the task at currentTaskIndex.
decomposeKeepsCurrent(plan, subTasks) ==
  arraySlice(plan.tasks, 0, plan.currentTaskIndex)
    \o mapPending(subTasks)
    \o arraySlice(plan.tasks, plan.currentTaskIndex, Len(plan.tasks))

\* Planner.decomposeCurrentTask
decomposeCurrentTask(plan, subTasks) ==
  arraySlice(plan.tasks, 0, plan.currentTaskIndex)
    \o mapPending(subTasks)
    \o arraySlice(plan.tasks, plan.currentTaskIndex + 1, Len(plan.tasks))

\* An overwrite that truncates and extends currentPlan.tasks in place.
overwriteTasksInPlace(currentPlan, items) ==
  LET tasks == arraySlice(currentPlan.tasks, 0, currentPlan.currentTaskIndex)
                 \o mapPending(items)
  IN PlannerReturn([currentPlan EXCEPT !.tasks = tasks],
                   [currentPlan EXCEPT !.tasks = tasks])

\* The overwrite branch of Planner.revisePlan: a new array from a slice of
\* currentPlan.tasks and the mapped tasks, in a new plan object.
overwriteTasks(currentPlan, items) ==
  PlannerReturn([currentPlan EXCEPT !.tasks =
                   arraySlice(currentPlan.tasks, 0, currentPlan.currentTaskIndex)
                     \o mapPending(items)],
                currentPlan)

\* Planner.revisePlan, from the reply of its completion call on
revisePlan(currentPlan, content, mode) ==
  LET result == parsePlanningResponse(content)
  IN IF mapThrows(result) THEN PlannerThrow(currentPlan)
     ELSE IF mode = "overwrite" THEN overwriteTasks(currentPlan, result.tasks.items)
     ELSE PlannerReturn([currentPlan EXCEPT !.tasks =
                           decomposeCurrentTask(currentPlan, result.tasks.items)],
                        currentPlan)

\* The plans revisePlan is given: executePlan has left the tasks before
\* currentTaskIndex settled and the task there, if any, running or failed.
PlannerPlans ==
  UNION { { [goal |-> "q1", currentTaskIndex |-> i,
             tasks |-> [k \in 1..n |-> [NewTask(k, {}) EXCEPT !.status = st[k]]]] :
              st \in [1..n -> {"pending", "completed", "failed"}],
              i \in 0..n } :
          n \in 0..MaxTasks }

otherVarsOfPlanner == <<limits, metrics, now, lastCall, sessions, calls>>

\* The frame of a Planner call: its arguments, the reply of its completion
\* call, and what it left.
InitPlanner ==
  /\ \E currentPlan \in PlannerPlans : \E content \in PlannerContents :
       ex = [pc |-> "called", goal |-> "q1", currentPlan |-> currentPlan,
             content |-> content, mode |-> "none",
             out |-> PlannerThrow(currentPlan)]
  /\ limits = CostControllerNew(<<>>)
  /\ metrics = EmptyMap
  /\ now = 0
  /\ lastCall = NoCall
  /\ sessions = EmptyMap
  /\ calls = NoCalls

CreatePlanReturns ==
  /\ ex.pc = "called"
  /\ ex' = [ex EXCEPT !.pc = "created", !.out = createPlan(ex.goal, ex.content)]
  /\ UNCHANGED otherVarsOfPlanner

RevisePlanReturns(mode) ==
  /\ ex.pc = "called"
  /\ ex' = [ex EXCEPT !.pc = "revised", !.mode = mode,
                      !.out = revisePlan(ex.currentPlan, ex.content, mode)]
  /\ UNCHANGED otherVarsOfPlanner

NextPlanner ==
  \/ CreatePlanReturns
  \/ RevisePlanReturns("decompose")
  \/ RevisePlanReturns("overwrite")

SpecPlanner == InitPlanner /\ [][NextPlanner]_vars

\* ----------------------------------------------------------- Planner: claims

\* The reply parsed into a task list: an object whose `tasks` is an array.
HasTaskList(content) == content.json = "object" /\ content.tasks.kind = "array"

AllPending(tasks) == \A k \in 1..Len(tasks) : tasks[k].status = "pending"

\* C24: createPlan does not throw whatever the reply holds: it returns a plan
\* with currentTaskIndex 0 and every task pending, and for a reply that does
\* not parse into a task list the plan has exactly one task, whose
\* description is a prefix of the reply.
C24_CreatePlanNeverThrows ==
  ex.pc = "created" =>
    /\ ~ex.out.threw
    /\ ex.out.plan.currentTaskIndex = 0
    /\ AllPending(ex.out.plan.tasks)
    /\ ~HasTaskList(ex.content) =>
         /\ Len(ex.out.plan.tasks) = 1
         /\ IsPrefix(ex.out.plan.tasks[1].description, ex.content.text)

\* The task list a revisePlan call in the given mode was answered with.
RevisedWith(mode) ==
  ex.pc = "revised" /\ ex.mode = mode /\ HasTaskList(ex.content)

\* C25: revisePlan in decompose mode returns tasks[0..i-1] ++ S ++
\* tasks[i+1..] for i = currentTaskIndex and the reply's task list S, with
\* the tasks before and after i as they were and every task of S pending;
\* goal and currentTaskIndex are those of the plan given.
C25_Decompose ==
  RevisedWith("decompose") =>
    LET old == ex.currentPlan.tasks
        new == ex.out.plan.tasks
        S == ex.content.tasks.items
        i == ex.currentPlan.currentTaskIndex
        rest == IF i < Len(old) THEN Len(old) - i - 1 ELSE 0
    IN /\ ~ex.out.threw
       /\ Len(new) = i + Len(S) + rest
       /\ \A k \in 1..i : new[k] = old[k]
       /\ \A k \in 1..Len(S) : new[i + k] = [S[k] EXCEPT !.status = "pending"]
       /\ \A k \in 1..rest : new[i + Len(S) + k] = old[i + 1 + k]
       /\ ex.out.plan.goal = ex.currentPlan.goal
       /\ ex.out.plan.currentTaskIndex = i

\* C25 witness: a task in the middle of a three-task plan was decomposed
\* into two sub-tasks, one of which the reply listed as completed.
C25_Witness ==
  /\ RevisedWith("decompose")
  /\ Len(ex.currentPlan.tasks) = 3
  /\ ex.currentPlan.currentTaskIndex = 1
  /\ ex.currentPlan.tasks[3].status = "failed"
  /\ Len(ex.content.tasks.items) = 2
  /\ ex.content.tasks.items[1].status = "completed"
  /\ Len(ex.out.plan.tasks) = 4

maxToolOutputChars == 8000

\* Serializations are this many characters around maxToolOutputChars.
MaxOver == 3

\* A serialization holds up to this many characters that JSON.stringify
\* escapes, or nothing but such characters.
MaxEscapes == 3

\* The characters of {"truncated":true,"preview":"","total_chars":} around
\* the escaped preview and the digits of total_chars.
EnvelopeChars == 46

\* A JSON text: its length, and how many of its first maxToolOutputChars
\* characters are quotes or backslashes, which JSON.stringify writes as two
\* characters each when the text is the value of a string property.
Json(chars, escapes) == [defined |-> TRUE, chars |-> chars, escapes |-> escapes]

UndefinedJson == [defined |-> FALSE, chars |-> 0, escapes |-> 0]

SerializedLengths ==
  {100, 2 * maxToolOutputChars}
    \cup { maxToolOutputChars + d : d \in 0..MaxOver }
    \cup { maxToolOutputChars - d : d \in 0..MaxOver }

\* What executeWithTools passes to formatToolContent: { error } of a failed
\* call, or the value a tool returned, which may be undefined, a value that
\* JSON.stringify throws on (a cycle, a BigInt), or a value that serializes.
ToolPayloads ==
  { [kind |-> "error_object", json |-> Json(100, 4)],
    [kind |-> "undefined", json |-> UndefinedJson],
    [kind |-> "unserializable", json |-> UndefinedJson],
    [kind |-> "value", json |-> Json(2, 0)] }
    \cup UNION { { [kind |-> "value", json |-> Json(n, e)] :
                      e \in (1..MaxEscapes) \cup {IF n < maxToolOutputChars
                                                    THEN n ELSE maxToolOutputChars} } :
                  n \in SerializedLengths }

\* Executor.safeStringify: JSON.stringify(payload, null, 2), which is
\* undefined for undefined; the error object's text when it throws.
safeStringify(payload) ==
  IF payload.kind = "unserializable" THEN Json(100, 12) ELSE payload.json

\* The number of decimal digits of n
RECURSIVE Digits(_)
Digits(n) == IF n < 10 THEN 1 ELSE 1 + Digits(n \div 10)

\* Executor.formatToolContent from `json` on: the text as it is, or the
\* serialized envelope around its first maxToolOutputChars characters.
formatToolContent(json) ==
  IF json.chars <= maxToolOutputChars
    THEN [truncated |-> FALSE, chars |-> json.chars, escapes |-> json.escapes,
          total_chars |-> json.chars]
    ELSE [truncated |-> TRUE,
          chars |-> EnvelopeChars + maxToolOutputChars + json.escapes
                      + Digits(json.chars),
          escapes |-> 0, total_chars |-> json.chars]

NoContent == [truncated |-> FALSE, chars |-> 0, escapes |-> 0, total_chars |-> 0]

otherVarsOfFormat == <<limits, metrics, now, lastCall, sessions, calls>>

InitFormat ==
  /\ \E payload \in ToolPayloads :
       ex = [pc |-> "call", payload |-> payload, json |-> UndefinedJson,
             content |-> NoContent]
  /\ limits = CostControllerNew(<<>>)
  /\ metrics = EmptyMap
  /\ now = 0
  /\ lastCall = NoCall
  /\ sessions = EmptyMap
  /\ calls = NoCalls

SafeStringifyReturns ==
  /\ ex.pc = "call"
  /\ ex' = [ex EXCEPT !.pc = "json", !.json = safeStringify(ex.payload)]
  /\ UNCHANGED otherVarsOfFormat

\* `json.length` of an undefined json throws a TypeError.
FormatToolContentThrows ==
  /\ ex.pc = "json"
  /\ ~ex.json.defined
  /\ ex' = [ex EXCEPT !.pc = "threw"]
  /\ UNCHANGED otherVarsOfFormat

\* The content of the tool message is returned.
FormatToolContentReturns ==
  /\ ex.pc = "json"
  /\ ex.json.defined
  /\ ex' = [ex EXCEPT !.pc = "message", !.content = formatToolContent(ex.json)]
  /\ UNCHANGED otherVarsOfFormat

NextFormat ==
  \/ SafeStringifyReturns
  \/ FormatToolContentThrows
  \/ FormatToolContentReturns

SpecFormat == InitFormat /\ [][NextFormat]_vars

\* ------------------------------------------------ tool-result messages: claims

\* C30: the content of a tool-result message is at most 8,000 characters: a
\* serialization of at most 8,000 characters is the content as it is, and a
\* longer one is replaced by the envelope, whose total_chars is the length
\* of the serialization.
C30_ToolContentWithinBudget ==
  ex.pc = "message" =>
    /\ ex.content.chars <= 8000
    /\ ex.json.chars <= 8000 =>
         /\ ~ex.content.truncated
         /\ ex.content.chars = ex.json.chars
         /\ ex.content.escapes = ex.json.escapes
    /\ ex.json.chars > 8000 =>
         /\ ex.content.truncated
         /\ ex.content.total_chars = ex.json.chars

\* ------------------------------------- Orchestrator: two sessions interleaved

\* The provider asks for tools in at most this many replies of a call.
MaxSharedRounds == 1

\* Replies of the planner: a single task, or an object without `tasks`.
SharedPlanReplies ==
  { [kind |-> "tasks", tasks |-> PlanTasks(1, <<{}>>)],
    [kind |-> "no_tasks", tasks |-> <<>>] }

\* One Orchestrator whose query limit a single recorded call exhausts.
InitShared ==
  /\ limits = CostControllerNew([maxQueries |-> 1])
  /\ metrics = EmptyMap
  /\ sessions = EmptyMap
  /\ calls = [s \in Sessions |-> IdleCall]
  /\ now = 0
  /\ lastCall = NoCall
  /\ ex = ExIdle

\* A caller of session id s makes the first call on the id since its last
\* createSession or deleteSession, whatever is in flight on other ids.
SharedStartMessage(s, msg) ==
  /\ calls[s].pc = "idle"
  /\ calls[s].served = 0
  /\ processMessageEnter(s, msg)

SharedStartStream(s, msg) ==
  /\ calls[s].pc = "idle"
  /\ calls[s].served = 0
  /\ processMessageStreamEnter(s, msg)

\* An operation on session id s, or a call on s resuming at one of its
\* awaits.
OperationOn(s) ==
  \/ CreateSession(s)
  \/ DeleteSession(s)
  \/ \E msg \in UserMessages : SharedStartMessage(s, msg)
  \/ \E msg \in UserMessages : SharedStartStream(s, msg)
  \/ CompletionThrows(s)
  \/ \E content \in ClassifyReplies : \E usage \in ProviderUsages :
       ClassifyReturns(s, content, usage)
  \/ \E n \in {0, 1} : \E usage \in ProviderUsages :
       /\ n = 1 => calls[s].toolRounds < MaxSharedRounds
       /\ ToolsLlmReturns(s, n, usage)
  \/ ToolCallsReturn(s)
  \/ ToolContentThrows(s)
  \/ \E reply \in SharedPlanReplies : PlanCreateReturns(s, reply)
  \/ PlanAttemptSucceeds(s)
  \/ PlanAttemptFails(s)
  \/ PlanDelayElapses(s)
  \/ DetectReturns(s)
  \/ \E reply \in SharedPlanReplies : ReviseReturns(s, reply)
  \/ \E confidence \in {"high", "low"} : EvaluateReturns(s, confidence)
  \/ SynthesizeReturns(s)

NextShared == \E s \in Sessions : OperationOn(s)

SpecShared == InitShared /\ [][NextShared]_vars

\* ------------------------------------------------- two sessions: claims

\* A map as a world that holds session id s only would have it.
Only(m, s) == [x \in (DOMAIN m) \cap {s} |-> m[x]]

\* What the Orchestrator holds for session id s: its context (history,
\* working memory, plan) and its CostMetrics, if any, and its call in flight.
StateOf(s) ==
  << IF s \in DOMAIN sessions THEN <<sessions[s]>> ELSE <<>>,
     IF s \in DOMAIN metrics THEN <<metrics[s]>> ELSE <<>>,
     calls[s] >>

\* The reads and writes of an operation on session id s come out as they
\* would with s the only session: the admission check, the usage recorded,
\* the metrics initialised and cleared, the message appended.
ActsAsAlone(s) ==
  /\ checkLimits(metrics, limits, s, now) = checkLimits(Only(metrics, s), limits, s, now)
  /\ \A usage \in ProviderUsages :
       /\ recordTokenUsageThrows(metrics, s, usage)
            = recordTokenUsageThrows(Only(metrics, s), s, usage)
       /\ Only(recordTokenUsage(metrics, s, usage, now), s)
            = recordTokenUsage(Only(metrics, s), s, usage, now)
  /\ Only(initSession(metrics, s, now), s) = initSession(Only(metrics, s), s, now)
  /\ Only(clearMetrics(metrics, s), s) = clearMetrics(Only(metrics, s), s)
  /\ Only(MapSet(sessions, s, NewContext(s)), s) = MapSet(Only(sessions, s), s, NewContext(s))
  /\ Only(MapDelete(sessions, s), s) = MapDelete(Only(sessions, s), s)
  /\ s \in DOMAIN sessions =>
       \A role \in {"user", "assistant"} :
         Only(addMessage(sessions, s, role, "q1", now), s)
           = addMessage(Only(sessions, s), s, role, "q1", now)

\* C27: sessions share no mutable state: whatever is in flight on the other
\* session id, an operation on id a, or a call on a resuming at an await,
\* leaves the context (history, working memory, plan), the CostMetrics and
\* the call of every other id as they are, and what it reads and writes for a
\* is what it would with a the only session.
C27_SessionsIsolated ==
  /\ [][\A a \in Sessions :
          OperationOn(a) => \A b \in Sessions \ {a} : StateOf(b)' = StateOf(b)]_vars
  /\ [](\A a \in Sessions : ActsAsAlone(a))

\* C27 witness: while a call on s2 is suspended in executePlan with nothing
\* recorded yet, a call on s1 has answered and used up s1's query limit; s2
\* holds its own user message only and would still be admitted.
C27_Witness ==
  /\ calls["s2"].pc = "plan_exec"
  /\ calls["s1"].pc = "idle" /\ calls["s1"].response.kind = "answer"
  /\ Len(sessions["s1"].conversationHistory) = 2
  /\ Len(sessions["s2"].conversationHistory) = 1
  /\ ~checkLimits(metrics, limits, "s1", now).allowed
  /\ checkLimits(metrics, limits, "s2", now).allowed
  /\ metrics["s2"].queryCount = 0

\* ------------------------ handleComplexTask: any plan executed, then revised

\* detectErrors found a failed result: revisePlan(plan, ..., 'overwrite')
\* resumes with the planner's reply and the revised plan is stored, or it
\* throws on a reply without a task list.
ReviseAfterFailure(reply) ==
  /\ ex.pc = "done"
  /\ HasFailure(ex.results)
  /\ ex' = IF planTasksThrows(reply)
             THEN [ex EXCEPT !.pc = "revise_threw"]
             ELSE [revised |->
                     revisePlanOverwrite([goal |-> "q1", tasks |-> ex.tasks,
                                          currentTaskIndex |-> ex.currentTaskIndex],
                                         reply).tasks]
                    @@ [ex EXCEPT !.pc = "revised"]
  /\ UNCHANGED otherVarsOfPlan

NextRevise ==
  \/ NextPlan
  \/ \E reply \in OrchPlanReplies : ReviseAfterFailure(reply)

SpecRevise == InitPlan /\ [][NextRevise]_vars

\* C31: every task that is completed when the plan is revised after a
\* failure is in the revised plan, completed as it was.
C31_RevisionKeepsCompleted ==
  ex.pc = "revised" =>
    \A k \in 1..Len(ex.tasks) :
      ex.tasks[k].status = "completed" =>
        \E j \in 1..Len(ex.revised) : ex.revised[j] = ex.tasks[k]

\* --------------------------------------------- Orchestrator: further claims

\* The conversation history of session id s
HistoryOf(s) == sessions[s].conversationHistory

\* C32: the conversation history only grows at its end, and a processMessage
\* call appends nothing when admission denies it, the user message when it
\* is admitted, nothing more while it runs or when it returns the error
\* response, and the assistant's answer when it returns one.
C32_HistoryAppendOnly ==
  [][\A s \in OrchSessions :
       LET c == calls[s]
           d == calls'[s]
           old == HistoryOf(s)
           new == HistoryOf(s)'
       IN /\ Len(old) <= Len(new) /\ SubSeq(new, 1, Len(old)) = old
          /\ (c.pc = "idle" /\ d # c /\ d.kind = "message") =>
               IF d.pc = "idle"
                 THEN d.response.kind = "blocked" /\ new = old
                 ELSE new = Append(old, [role |-> "user", content |-> d.msg])
          /\ (c.pc # "idle" /\ c.kind = "message") =>
               IF d.pc # "idle" THEN new = old
               ELSE IF d.response.kind = "answer"
                 THEN new = Append(old, [role |-> "assistant", content |-> "answer"])
               ELSE d.response.kind = "error" /\ new = old]_vars

\* C32 witness: after a first message was answered, a second one ended in the
\* error response: the history holds the first exchange and the second user
\* message.
C32_Witness ==
  /\ calls["s1"].pc = "idle" /\ calls["s1"].served = 2
  /\ calls["s1"].kind = "message" /\ calls["s1"].response.kind = "error"
  /\ calls["s1"].first \in {"simple_query", "complex_task"}
  /\ HistoryOf("s1") = << [role |-> "user", content |-> "q1"],
                          [role |-> "assistant", content |-> "answer"],
                          [role |-> "user", content |-> "q1"] >>

\* The transcript executeWithTools builds for its first completion call: the
\* system prompt, the entries of context.conversationHistory by role and
\* content, and the user message it was given.
executeWithToolsMessages(conversationHistory, userMessage) ==
  <<[role |-> "system", content |-> "system prompt"]>>
    \o conversationHistory
    \o <<[role |-> "user", content |-> userMessage]>>

\* The first completion call of executeWithTools is in flight in a call of
\* processMessage on session id s.
FirstToolsCall(s) ==
  /\ calls[s].pc = "tools_llm" /\ calls[s].kind = "message"
  /\ calls[s].toolRounds = 0

\* C33: the transcript of the first completion call of a direct turn is the
\* system prompt, the conversation before the turn, and the turn's user
\* message, once.
C33_UserMessageOnce ==
  \A s \in OrchSessions :
    FirstToolsCall(s) =>
      LET prior == SubSeq(HistoryOf(s), 1, Len(HistoryOf(s)) - 1)
      IN executeWithToolsMessages(HistoryOf(s), calls[s].msg)
           = <<[role |-> "system", content |-> "system prompt"]>>
               \o prior \o <<[role |-> "user", content |-> calls[s].msg]>>

\* ----------------------------------------------- Executor: further claims

\* Every step of executePlan is the code running on or an await resuming: a
\* completion call returns or throws, a backoff timer fires.
SpecPlanFair == SpecPlan /\ WF_vars(NextPlan)

\* Task k can never become eligible: a dependency of it, direct or through
\* other tasks, names no task of the plan or lies on a cycle.
NeverEligible(tasks, k) ==
  LET needs == DependsOn(tasks, tasks[k].dependencies, Len(tasks))
  IN \/ ~(needs \subseteq TaskIds(tasks))
     \/ \E j \in 1..Len(tasks) :
          /\ tasks[j].id \in needs
          /\ tasks[j].id \in DependsOn(tasks, tasks[j].dependencies, Len(tasks))

\* executePlan returns in every run.
PlanTerminates == <>(ex.pc = "done")

\* No task is running once executePlan has returned.
NoneRunningOnReturn ==
  ex.pc = "done" => \A k \in 1..Len(ex.tasks) : ex.tasks[k].status # "running"

\* C34: executePlan returns for every plan, also with cyclic, self or
\* missing dependencies; it returns at the end of a pass that made no
\* progress; on return no task is running and every task that can never
\* become eligible is blocked.
C34_TerminatesWithBlocked ==
  /\ PlanTerminates
  /\ [][(ex.pc # "done" /\ ex'.pc = "done") =>
          (ex.pc = "scan" /\ ex.i >= Len(ex.tasks) /\ ~ex.madeProgress)]_vars
  /\ [](NoneRunningOnReturn)
  /\ [](ex.pc = "done" =>
          \A k \in 1..Len(ex.tasks) :
            NeverEligible(ex.tasks, k) => ex.tasks[k].status = "blocked")

\* The tasks of the plan that have the given status.
TasksWithStatus(tasks, status) == {k \in 1..Len(tasks) : tasks[k].status = status}

\* C35: in one executePlan call a completed or failed task is left as it is,
\* no task is handed to executeTask twice, at most one task is running, and
\* a plan of N tasks yields at most N results and 3N completion calls.
C35_TerminalStableWorkBounded ==
  /\ [][ex.pc # "idle" =>
          \A k \in 1..Len(ex.tasks) :
            ex.tasks[k].status \in {"completed", "failed"} => ex'.tasks[k] = ex.tasks[k]]_vars
  /\ [](ex.pc # "idle" =>
          /\ \A a, b \in 1..Len(ex.executed) : ex.executed[a] = ex.executed[b] => a = b
          /\ Cardinality(TasksWithStatus(ex.tasks, "running")) <= 1
          /\ Len(ex.results) <= Len(ex.tasks)
          /\ ex.completions <= 3 * Len(ex.tasks))

\* C35 witness: executePlan has returned from a three-task plan with three
\* results after nine completion calls, the first task having run in a
\* second pass.
C35_Witness ==
  /\ ex.pc = "done"
  /\ Len(ex.tasks) = 3 /\ Len(ex.results) = 3
  /\ ex.completions = 9
  /\ ex.passes >= 2
  /\ ex.executed[3] = 1

\* C36: on the plan path executePlan is entered once per message; the
\* revision that follows a failure only replaces the session's currentPlan:
\* from then on to the return of the call the stored plan and the execution
\* results handed to evaluateResult and synthesizeResponse stay as they are,
\* and the tasks the revision brought in are pending on return.
C36_RevisionOnlyStored ==
  /\ [](\A s \in OrchSessions : Count(calls[s].trace, "plan_execute") <= 1)
  /\ [][\A s \in OrchSessions :
          LET c == calls[s]
              d == calls'[s]
              kept == c.ex.currentTaskIndex
              plan == sessions'[s].currentPlan
          IN /\ (c.pc = "revise" /\ d.pc = "evaluate") =>
                  /\ d.ex = c.ex
                  /\ \A k \in (kept + 1)..Len(plan.tasks) : plan.tasks[k].status = "pending"
             /\ (c.pc \in {"evaluate", "synthesize"} /\ Count(c.trace, "revise") = 1) =>
                  /\ plan = sessions[s].currentPlan
                  /\ d.pc # "idle" => d.ex = c.ex
                  /\ d.pc = "idle" =>
                       \A k \in (kept + 1)..Len(plan.tasks) : plan.tasks[k].status = "pending"]_vars

\* C36 witness: a message was answered after its second task failed and the
\* plan was revised: the stored plan holds the completed first task and the
\* two pending tasks of the revision.
C36_Witness ==
  /\ Answered("s1")
  /\ Count(calls["s1"].trace, "revise") = 1
  /\ Len(sessions["s1"].currentPlan.tasks) = 3
  /\ sessions["s1"].currentPlan.tasks[1].status = "completed"
  /\ sessions["s1"].currentPlan.tasks[2].status = "pending"
  /\ sessions["s1"].currentPlan.tasks[3].status = "pending"

\* ------------------------------------- ConfirmingTool: confirmation of tools

\* Tool calls in one model reply.
MaxConfirmCalls == 2

\* The tools buildToolRegistry registers, each wrapped in a ConfirmingTool.
RegisteredTools ==
  { "query_sql", "explore_schema", "call_api", "read_file", "write_file",
    "list_files", "execute_code", "run_shell", "list_data_sources" }

\* String.toUpperCase on the methods in use.
toUpperCase(method) ==
  CASE method = "get" -> "GET"
    [] method = "Options" -> "OPTIONS"
    [] method = "post" -> "POST"
    [] OTHER -> method

\* sql.trim().split(/\s+/)[0]?.toLowerCase() on the statements in use.
firstWordLowerCase(sql) ==
  CASE sql = "SELECT 1" -> "select"
    [] sql = " Delete from t" -> "delete"
    [] sql = "drop table t" -> "drop"
    [] OTHER -> ""

\* getStringField(input, key): the field when it is a string, else undefined.
getStringField(input, key) ==
  IF key \in DOMAIN input THEN input[key] ELSE "undefined"

\* shouldConfirmTool(name, input)
shouldConfirmTool(name, input) ==
  IF name \in {"write_file", "run_shell", "execute_code"} THEN TRUE
  ELSE IF name = "call_api"
    THEN LET field == getStringField(input, "method")
             method == IF field \in {"undefined", ""} THEN "GET" ELSE field
         IN toUpperCase(method) \notin {"GET", "HEAD", "OPTIONS"}
  ELSE IF name = "query_sql"
    THEN LET sql == getStringField(input, "sql")
         IN IF sql \in {"undefined", ""} THEN FALSE
            ELSE firstWordLowerCase(sql) \in
                   {"insert", "update", "delete", "alter", "drop", "truncate"}
  ELSE FALSE

\* The tool calls a reply may carry: a name and the parsed arguments.
ConfirmToolCalls ==
  { [name |-> "write_file", input |-> EmptyMap],
    [name |-> "run_shell", input |-> EmptyMap],
    [name |-> "execute_code", input |-> EmptyMap],
    [name |-> "read_file", input |-> EmptyMap],
    [name |-> "list_data_sources", input |-> EmptyMap],
    [name |-> "no_such_tool", input |-> EmptyMap],
    [name |-> "call_api", input |-> EmptyMap],
    [name |-> "call_api", input |-> ("method" :> "Options")],
    [name |-> "call_api", input |-> ("method" :> "post")],
    [name |-> "query_sql", input |-> ("sql" :> "SELECT 1")],
    [name |-> "query_sql", input |-> ("sql" :> " Delete from t")],
    [name |-> "query_sql", input |-> ("sql" :> "drop table t")] }

\* How confirmations are asked: through a started TerminalUI, through a
\* TerminalUI that was not started, or through inquirer.
ConfirmUis == {"tui", "tui_not_started", "inquirer"}

\* Lines typed at a TerminalUI prompt, and answer.trim().toLowerCase()
AnswerLines == {"y", " Yes ", "", "n", "yes please"}
trimToLowerCase(line) == IF line = " Yes " THEN "yes" ELSE line

\* TerminalUI.confirm after readLine: 'y' and 'yes' approve.
confirmAnswer(line) == trimToLowerCase(line) \in {"y", "yes"}

\* One call of the reply: how far its callback is, what its confirmation
\* returned, how often the wrapped tool's execute was invoked, and the entry
\* of the callback once it returned.
NoEntry == [settled |-> FALSE]
confirmCall(toolCall) ==
  [ name |-> toolCall.name, input |-> toolCall.input, pc |-> "waiting",
    confirmation |-> "none", invoked |-> 0, entry |-> NoEntry ]

\* The catch block of the callback: { toolCallId, result: null, error }
callThrew(c, id, confirmation, message) ==
  [c EXCEPT !.pc = "settled", !.confirmation = confirmation,
            !.entry = [settled |-> TRUE, toolCallId |-> id, result |-> "null",
                       error |-> message]]

\* this.tool.execute(input, context) is called and awaited.
toolExecute(c, confirmation) ==
  [c EXCEPT !.pc = "running", !.confirmation = confirmation, !.invoked = @ + 1]

\* ConfirmingTool.execute that runs the tool whatever the confirmation said.
afterConfirmIgnored(c, id, approved) ==
  toolExecute(c, IF approved THEN "approved" ELSE "declined")

\* ConfirmingTool.execute from the value of `approved` on: not approved
\* throws 'Tool execution cancelled', approved goes on to the tool.
afterConfirm(c, id, approved) ==
  IF approved
    THEN toolExecute(c, "approved")
    ELSE callThrew(c, id, "declined", "Tool execution cancelled")

\* The callback of toolCalls.map for call k, up to its first await that does
\* not resolve at once: the lookup, validate, and ConfirmingTool.execute up
\* to the confirmation or to the tool.  A started TerminalUI takes one input
\* request and rejects a second, one that was not started resolves '' at
\* once, and inquirer opens a prompt.
startCall(e, k, invalid) ==
  LET c == e.calls[k]
  IN IF c.name \notin RegisteredTools
       THEN [e EXCEPT !.calls[k] = callThrew(c, k, "none", "Tool not found")]
     ELSE IF k \in invalid
       THEN [e EXCEPT !.calls[k] = callThrew(c, k, "none", "validation failed")]
     ELSE IF ~shouldConfirmTool(c.name, c.input)
       THEN [e EXCEPT !.calls[k] = toolExecute(c, "none")]
     ELSE IF e.autoApprove
       THEN [e EXCEPT !.calls[k] = toolExecute(c, "auto")]
     ELSE IF e.ui = "tui_not_started"
       THEN [e EXCEPT !.calls[k] = afterConfirm(c, k, confirmAnswer(""))]
     ELSE IF e.ui = "inquirer"
       THEN [e EXCEPT !.calls[k].pc = "asking"]
     ELSE IF e.pendingInput # 0
       THEN [e EXCEPT !.calls[k] = callThrew(c, k, "rejected", "Input already pending")]
     ELSE [e EXCEPT !.calls[k].pc = "asking", !.pendingInput = k]

\* toolCalls.map: the callbacks are started one after the other.
RECURSIVE mapToolCalls(_, _, _)
mapToolCalls(e, k, invalid) ==
  IF k > Len(e.calls) THEN e
  ELSE mapToolCalls(startCall(e, k, invalid), k + 1, invalid)

otherVarsOfConfirm == <<limits, metrics, now, lastCall, sessions, calls>>

InitConfirm ==
  /\ \E autoApprove \in BOOLEAN : \E ui \in ConfirmUis :
       \E n \in 1..MaxConfirmCalls : \E toolCalls \in [1..n -> ConfirmToolCalls] :
         ex = [ pc |-> "reply", autoApprove |-> autoApprove, ui |-> ui,
                pendingInput |-> 0,
                calls |-> [k \in 1..n |-> confirmCall(toolCalls[k])],
                results |-> <<>> ]
  /\ limits = CostControllerNew(<<>>)
  /\ metrics = EmptyMap
  /\ now = 0
  /\ lastCall = NoCall
  /\ sessions = EmptyMap
  /\ calls = NoCalls

\* executeToolCalls up to the await of Promise.all; validate throws for the
\* calls in `invalid`.
ConfirmDispatch(invalid) ==
  /\ ex.pc = "reply"
  /\ ex' = mapToolCalls([ex EXCEPT !.pc = "tools"], 1, invalid)
  /\ UNCHANGED otherVarsOfConfirm

\* handleKeypress on return: the pending request is taken and resolved with
\* the line, and the confirmation that asked goes on.
KeypressReturn(line) ==
  /\ ex.pc = "tools"
  /\ ex.pendingInput # 0
  /\ ex' = [ex EXCEPT !.pendingInput = 0,
                      !.calls[ex.pendingInput] =
                        afterConfirm(@, ex.pendingInput, confirmAnswer(line))]
  /\ UNCHANGED otherVarsOfConfirm

\* The inquirer prompt of call k returns its answer.
InquirerAnswers(k, approved) ==
  /\ ex.pc = "tools"
  /\ ex.ui = "inquirer"
  /\ ex.calls[k].pc = "asking"
  /\ ex' = [ex EXCEPT !.calls[k] = afterConfirm(@, k, approved)]
  /\ UNCHANGED otherVarsOfConfirm

\* The inquirer prompt of call k rejects: the await in ConfirmingTool.execute
\* throws.
InquirerFails(k) ==
  /\ ex.pc = "tools"
  /\ ex.ui = "inquirer"
  /\ ex.calls[k].pc = "asking"
  /\ ex' = [ex EXCEPT !.calls[k] = callThrew(@, k, "failed", "prompt failed")]
  /\ UNCHANGED otherVarsOfConfirm

\* The wrapped tool's execute of call k returns or throws.
ToolBodySettles(k, returned) ==
  /\ ex.pc = "tools"
  /\ ex.calls[k].pc = "running"
  /\ ex' = [ex EXCEPT !.calls[k].pc = "settled",
                      !.calls[k].entry =
                        IF returned
                          THEN [settled |-> TRUE, toolCallId |-> k,
                                result |-> "output", error |-> "undefined"]
                          ELSE [settled |-> TRUE, toolCallId |-> k,
                                result |-> "null", error |-> "tool failed"]]
  /\ UNCHANGED otherVarsOfConfirm

\* Promise.all resolves with the entries in the order of the calls.
ConfirmResolve ==
  /\ ex.pc = "tools"
  /\ \A k \in 1..Len(ex.calls) : ex.calls[k].pc = "settled"
  /\ ex' = [ex EXCEPT !.pc = "done",
                      !.results = [k \in 1..Len(ex.calls) |-> ex.calls[k].entry]]
  /\ UNCHANGED otherVarsOfConfirm

NextConfirm ==
  \/ /\ ex.pc = "reply"
     /\ \E invalid \in SUBSET (1..Len(ex.calls)) : ConfirmDispatch(invalid)
  \/ /\ ex.pc = "tools"
     /\ \E line \in AnswerLines : KeypressReturn(line)
  \/ /\ ex.pc = "tools"
     /\ \E k \in 1..Len(ex.calls) : \E approved \in BOOLEAN : InquirerAnswers(k, approved)
  \/ /\ ex.pc = "tools"
     /\ \E k \in 1..Len(ex.calls) : InquirerFails(k)
  \/ /\ ex.pc = "tools"
     /\ \E k \in 1..Len(ex.calls) : \E returned \in BOOLEAN : ToolBodySettles(k, returned)
  \/ ConfirmResolve

SpecConfirm == InitConfirm /\ [][NextConfirm]_vars

\* ---------------------------------------------------- ConfirmingTool: claims

\* C38: with the calls of one reply dispatched together, the wrapped tool of
\* a call that shouldConfirmTool selects is invoked only if autoApprove is
\* set or the confirmation asked for that call was approved, and at most
\* once; a call whose confirmation was declined, was rejected because an
\* input request was pending, or failed, has an error entry and its tool is
\* never invoked; and the results hold one entry per call, in call order.
C38_ConfirmedBeforeExecuted ==
  /\ \A k \in 1..Len(ex.calls) :
       LET c == ex.calls[k]
       IN /\ c.invoked <= 1
          /\ (shouldConfirmTool(c.name, c.input) /\ c.invoked > 0) =>
               (ex.autoApprove \/ c.confirmation = "approved")
          /\ c.confirmation \in {"declined", "rejected", "failed"} =>
               /\ c.invoked = 0
               /\ c.pc = "settled"
               /\ c.entry.settled
               /\ c.entry.toolCallId = k
               /\ c.entry.result = "null"
               /\ c.entry.error # "undefined"
          /\ (c.pc = "asking" /\ ex.ui = "tui") => ex.pendingInput = k
  /\ ex.pc = "done" =>
       /\ Len(ex.results) = Len(ex.calls)
       /\ \A k \in 1..Len(ex.calls) : ex.results[k] = ex.calls[k].entry

\* Two confirmation-requiring calls went out together through a started
\* TerminalUI: the first was approved at the prompt and its tool ran, the
\* second was rejected because the first's input request was pending and
\* its tool never ran.
C38_Witness ==
  /\ ex.pc = "done"
  /\ ~ex.autoApprove
  /\ ex.ui = "tui"
  /\ Len(ex.calls) = 2
  /\ ex.calls[1].name = "write_file"
  /\ ex.calls[1].confirmation = "approved"
  /\ ex.calls[1].invoked = 1
  /\ ex.calls[2].name = "query_sql"
  /\ ex.calls[2].confirmation = "rejected"
  /\ ex.calls[2].invoked = 0
  /\ ex.results[2].error = "Input already pending"

====
